---- MODULE Spec2Model ----
(***************************************************************************)
(* cjunct: the execution engine.  A Runner drives a strategy (an async     *)
(* iterator over the actions of a workflow), renders every yielded action, *)
(* awaits it in a background task and forwards its events to the display.  *)
(*                                                                         *)
(* Everything runs on one asyncio event loop.  The loop is modelled by its *)
(* FIFO queue of ready callbacks (`ready`): a callback is either the       *)
(* resumption of a task or the completion callback that asyncio.wait()     *)
(* attaches to the futures it waits for.  A task runs from one suspension  *)
(* point to the next without interruption.                                 *)
(***************************************************************************)
EXTENDS Integers, Sequences, FiniteSets, TLC

\* The actions of the workflow, and the insertion order of the mapping.
Names == {"a1", "a2", "a3"}
Order == <<"a1", "a2", "a3">>

\* Most times the handlers of one run suspend on I/O, all together.
MaxIO == 1

NoAction == "-"
MainTask == <<"main", NoAction>>

Strategies == {"free", "sequential", "loose", "strict", "strict-sequential"}

\* BaseStrategy.STRICT of the strategy class selected by NAME.
STRICT(s) == s \in {"strict", "strict-sequential"}

\* ActionStatus
ActionStatus == {"PENDING", "RUNNING", "SUCCESS", "FAILURE", "SKIPPED", "OMITTED"}

\* A workflow: for every action its ancestors (after external pruning) and
\* the subset of them whose ActionDependency has strict=True.
Net(anc, strict) == [ancestors |-> anc, strict |-> strict]
NoDeps == [n \in Names |-> {}]
Deps(a1, a2, a3) == [n \in Names |-> IF n = "a1" THEN a1 ELSE IF n = "a2" THEN a2 ELSE a3]

StrictChain == Net(Deps({}, {"a1"}, {"a2"}), Deps({}, {"a1"}, {"a2"}))      \* a1 -> a2 -> a3, all strict
MixedChain == Net(Deps({}, {"a1"}, {"a2"}), Deps({}, {}, {"a2"}))           \* a1 -loose-> a2 -strict-> a3
Fork == Net(Deps({}, {"a1"}, {"a1"}), Deps({}, {"a1"}, {}))                 \* a1 -> a2 strict, a1 -> a3 loose
Join == Net(Deps({}, {}, {"a1", "a2"}), Deps({}, {}, {"a1"}))               \* a3 after a1 (strict) and a2 (loose)
Backward == Net(Deps({"a2"}, {}, {}), Deps({"a2"}, {}, {}))                 \* a1 declared before its ancestor a2
BackwardChain == Net(Deps({"a2"}, {"a3"}, {}), Deps({"a2"}, {"a3"}, {}))    \* a3 -> a2 -> a1, all strict

Workflows == {StrictChain, MixedChain, Fork, Join, Backward, BackwardChain}

\* The free and sequential strategies never look at the dependencies.
Chains == {StrictChain, Backward}

\* Most actions left out of the plan before the run.
MaxDisabled == 1

VARIABLES
  strategy,            \* Runner._strategy_class (its NAME)
  net,                 \* Runner.actions: the loaded ActionNet
  disabled,            \* the actions left out of the plan (ActionBase.disable)
  status,              \* ActionBase._status
  fut,                 \* ActionBase._maybe_finish_flag: "pending" | "result" | "exception"
  futCbs,              \* done-callbacks attached to that future, in order
  yielded_keys,        \* ActionBase._yielded_keys
  event_queue,         \* ActionBase._event_queue
  running_task,        \* ActionBase._running_task: the handler task's state
  phase,               \* emit() calls made by the handler so far
  ios,                 \* times a handler has suspended on I/O so far
  taskWaiters,         \* tasks awaiting ActionBase._running_task, in order
  runPc,               \* the Runner._run_action task of each action
  renderRes,           \* outcome of Runner._render_action: "none" | "ok" | "fail"
  dispPc,              \* the Runner._dispatch_action_events_to_display task
  getter,              \* the queue_getter task of read_events
  getterItem,          \* its result
  waiting,             \* tasks suspended in an asyncio.wait() whose waiter is still pending
  displayed,           \* display.emit_action_message calls, per action
  errors,              \* display.emit_action_error calls, per action
  mainPc,              \* position of Runner.run_async
  mainArg,             \* the action run_async / __anext__ is dealing with
  mainWaitTask,        \* the background task run_async awaits
  finIdx,              \* index of that task in background_tasks
  background_tasks,    \* run_async's background_tasks
  started,             \* Runner._started
  outcomes,            \* keys of Runner._outcomes (values alias _yielded_keys)
  had_failed_actions,  \* Runner._had_failed_actions
  finished,            \* display.on_finish calls
  result,              \* how run_async ended
  unprocessed,         \* FreeStrategy._unprocessed
  current,             \* SequentialStrategy._current
  active_actions_map,  \* LooseStrategy._active_actions_map (its keys)
  action_blockers,     \* LooseStrategy._action_blockers (values)
  blockerKeys,         \* LooseStrategy._action_blockers (keys)
  ready,               \* the event loop's queue of ready callbacks
  batch,               \* callbacks left to run in this iteration of the loop
  cur,                 \* the task that is executing, "none" between callbacks
  yieldedSeq,          \* actions returned by the strategy's __anext__, in order
  strategySkipped,     \* actions passed to BaseStrategy._skip_action
  graph,               \* the actions handed to ActionNet(): action -> name -> its dependency on that name
  built,               \* what ActionNet() gave: the net, or the IntegrityError
  message,             \* the argument of EmissionScannerActionBase.emit
  scan,                \* the scanning action: its queued events, its _yielded_keys
  template,            \* the argument of Templar.render (rendering.py)
  rendered,            \* what that render call gave: the string, or the error
  context_map,         \* the context_map given to Templar (rendering/__init__.py)
  templar,             \* that Templar: its _depth, its nested _internal_render calls
  lookup,              \* an outcomes expression, the scope it is read in, and what it gave
  plex                 \* an AsyncMultiplexor, its sources, its consumer (streams/multiplexor.py)

\* the variables of the parts modelled last
moreVars == <<lookup, plex>>

vars == <<strategy, net, disabled, ios, status, fut, futCbs, yielded_keys, event_queue, running_task,
          phase, taskWaiters, runPc, renderRes, dispPc, getter, getterItem, waiting,
          displayed, errors, mainPc, mainArg, mainWaitTask, finIdx, background_tasks, started,
          outcomes, had_failed_actions, finished, result, unprocessed, current,
          active_actions_map, action_blockers, blockerKeys, ready, batch, cur, yieldedSeq,
          strategySkipped, graph, built, message, scan, template, rendered, context_map, templar, moreVars>>

\* groups of variables, for the frame conditions
actionVars == <<status, fut, futCbs, yielded_keys, event_queue, running_task, phase, taskWaiters>>
runVars == <<runPc, renderRes, outcomes, had_failed_actions, errors>>
dispVars == <<dispPc, getter, getterItem, displayed>>
mainVars == <<mainPc, mainArg, mainWaitTask, finIdx, background_tasks, started, finished, result>>
stratVars == <<unprocessed, current, active_actions_map, action_blockers, blockerKeys,
               yieldedSeq, strategySkipped>>
baseVars == <<graph, built, message, scan, template, rendered, context_map, templar>>
libVars == <<baseVars, moreVars>>
confVars == <<strategy, net, disabled, ios, libVars>>

----
\* Helpers

Step(task) == <<"step", task>>
WaitCb(task) == <<"wcb", task>>
RunTask(a) == <<"run", a>>
DispTask(a) == <<"disp", a>>
HandlerTask(a) == <<"handler", a>>
GetterTask(a) == <<"getter", a>>

Pos(n) == CHOOSE i \in 1..Len(Order) : Order[i] = n

\* ActionBase.done
done(a) == fut[a] # "pending" \/ status[a] \in {"SKIPPED", "OMITTED"}

\* Future.set_result / set_exception: the attached callbacks are handed to the loop.
FutCallbacks(a) == [i \in 1..Len(futCbs[a]) |-> WaitCb(futCbs[a][i])]

\* Task completion: every task awaiting the handler task is resumed, in order.
TaskCallbacks(a) == [i \in 1..Len(taskWaiters[a]) |-> Step(taskWaiters[a][i])]

\* run_async is resumed when the background task it awaits completes.
MainWake(task) == IF mainWaitTask = task THEN <<Step(MainTask)>> ELSE <<>>

\* The loop takes the next ready callback of the current iteration.
Pop(cb) ==
  /\ cur = "none" /\ batch > 0
  /\ ready # <<>> /\ Head(ready) = cb
  /\ batch' = batch - 1

\* run_async goes on without suspending.
Running == cur = "main" /\ UNCHANGED batch

Remove(seq, x) == SelectSeq(seq, LAMBDA e : e # x)

\* Runner._outcomes.get(name, {}): the stored value is the action's own dict.
OutcomesGet(b) == IF b \in outcomes THEN yielded_keys[b] ELSE <<>>

\* Events passed to emit() so far: the handler emits its phase number.
Emitted(a) == [i \in 1..phase[a] |-> i]

\* A yielded key is looked up in the mapping an action has reported so far.
HasKey(dict, key) == key \in DOMAIN dict

\* Is the background task over?
TaskDone(task) == IF task[1] = "run" THEN runPc[task[2]] = "done" ELSE dispPc[task[2]] = "done"

----
\* Initial state: a Runner has been constructed for some workflow and
\* strategy, and asyncio.run() has scheduled run_async.

RunnerInit ==
  /\ strategy \in Strategies
  /\ net \in IF strategy \in {"loose", "strict"} THEN Workflows ELSE Chains
  /\ status = [a \in Names |-> "PENDING"]
  /\ fut = [a \in Names |-> "pending"]
  /\ futCbs = [a \in Names |-> <<>>]
  /\ yielded_keys = [a \in Names |-> <<>>]
  /\ event_queue = [a \in Names |-> <<>>]
  /\ running_task = [a \in Names |-> "none"]
  /\ phase = [a \in Names |-> 0]
  /\ ios = 0
  /\ disabled = {}
  /\ taskWaiters = [a \in Names |-> <<>>]
  /\ runPc = [a \in Names |-> "none"]
  /\ renderRes = [a \in Names |-> "none"]
  /\ dispPc = [a \in Names |-> "none"]
  /\ getter = [a \in Names |-> "none"]
  /\ getterItem = [a \in Names |-> 0]
  /\ waiting = {}
  /\ displayed = [a \in Names |-> <<>>]
  /\ errors = [a \in Names |-> 0]
  /\ mainPc = "start"
  /\ mainArg = NoAction
  /\ mainWaitTask = <<"none", NoAction>>
  /\ finIdx = 1
  /\ background_tasks = <<>>
  /\ started = FALSE
  /\ outcomes = {}
  /\ had_failed_actions = FALSE
  /\ finished = 0
  /\ result = "none"
  /\ unprocessed = Order
  /\ current = NoAction
  /\ active_actions_map = {}
  /\ action_blockers = net.ancestors
  /\ blockerKeys = Names
  /\ ready = <<Step(MainTask)>>
  /\ batch = 0
  /\ cur = "none"
  /\ yieldedSeq = <<>>
  /\ strategySkipped = {}

\* No workflow is being built aside of the run.
NotBuilt ==
  [error |-> "unbuilt", message |-> "", names |-> <<>>,
   ancestors |-> <<>>, entrypoints |-> {}, tier |-> <<>>]
NetIdle == graph = <<>> /\ built = NotBuilt

\* No emission is being scanned aside of the run.
NoMessage == [stderr |-> FALSE, lines |-> <<>>]
ScanIdle == message = NoMessage /\ scan = [pc |-> "idle", events |-> <<>>, outcomes |-> {}]

\* No template is being rendered aside of the run.
NotRendered == [error |-> "unrendered", string |-> <<>>]
LexIdle == template = <<>> /\ rendered = NotRendered

\* No context is being rendered aside of the run.
NoTemplar ==
  [pc |-> "none", depth |-> 0, frames |-> <<>>, calls |-> 0, renders |-> 0,
   key |-> "none", raised |-> "none", error |-> "none"]
TemplarIdle == context_map = <<>> /\ templar = NoTemplar

\* No outcomes expression is being read aside of the run.
NoLookup == [pc |-> "none"]
LookupIdle == lookup = NoLookup

\* No multiplexor is at work aside of the run.
NoPlex == [pc |-> "none"]
PlexIdle == plex = NoPlex

MoreIdle == LookupIdle /\ PlexIdle
BaseIdle == NetIdle /\ ScanIdle /\ LexIdle /\ TemplarIdle

Init == RunnerInit /\ NetIdle /\ ScanIdle /\ LexIdle /\ TemplarIdle /\ MoreIdle

\* ActionBase.disable: `if self._status != ActionStatus.PENDING: raise RuntimeError`
\* (disableAllowedRunning: a variant that lets a running action through)
disableAllowedRunning(st) == st \in {"PENDING", "RUNNING"}
disableAllowed(st) == st = "PENDING"

\* ActionBase.disable, called on the actions left out of the plan before
\* the run starts.
disable(a) ==
  /\ mainPc = "start"
  /\ Cardinality(disabled) < MaxDisabled
  /\ disableAllowed(status[a])
  /\ status' = [status EXCEPT ![a] = "OMITTED"]
  /\ fut' = [fut EXCEPT ![a] = "result"]
  /\ disabled' = disabled \cup {a}
  /\ UNCHANGED <<futCbs, yielded_keys, event_queue, running_task, phase, taskWaiters>>
  /\ UNCHANGED <<runVars, dispVars, mainVars, stratVars, strategy, net, ios, libVars, waiting, ready, cur, batch>>

\* `if self._started: raise RuntimeError(...)`
\* (RefusedNever: a variant without the check)
RefusedNever == FALSE
Refused == started

\* Runner.run_async up to the construction of the strategy.
run_async ==
  /\ Pop(Step(MainTask))
  /\ mainPc = "start"
  /\ ~Refused
  /\ started' = TRUE
  /\ mainPc' = "anext"
  /\ cur' = "main"
  /\ ready' = Tail(ready)
  /\ UNCHANGED <<mainArg, mainWaitTask, finIdx, background_tasks, finished, result>>
  /\ UNCHANGED <<actionVars, runVars, dispVars, stratVars, confVars, waiting>>

\* The body of run_async's `async for`: two background tasks per action.
\* `rdy` is the loop's queue as the strategy left it.
Allocate(a, rdy) ==
  /\ background_tasks' = background_tasks \o <<RunTask(a), DispTask(a)>>
  /\ runPc' = [runPc EXCEPT ![a] = "ready"]
  /\ dispPc' = [dispPc EXCEPT ![a] = "ready"]
  /\ ready' = rdy \o <<Step(RunTask(a)), Step(DispTask(a))>>
  /\ yieldedSeq' = Append(yieldedSeq, a)
  /\ mainPc' = "anext"

\* `self._unprocessed.pop(0)`: what is left of the list
\* (PoppedNothing: a variant that reads the head and leaves it in the list)
PoppedNothing == unprocessed
Popped == Tail(unprocessed)

\* FreeStrategy.__anext__
FreeStrategy ==
  /\ Running /\ mainPc = "anext" /\ strategy = "free"
  /\ IF unprocessed = <<>>
       THEN /\ mainPc' = "fin"
            /\ UNCHANGED <<background_tasks, runPc, dispPc, ready, yieldedSeq, unprocessed>>
       ELSE /\ unprocessed' = Popped
            /\ Allocate(Head(unprocessed), ready)
  /\ UNCHANGED <<mainArg, mainWaitTask, finIdx, started, finished, result, cur, waiting>>
  /\ UNCHANGED <<actionVars, confVars, renderRes, outcomes, had_failed_actions, errors>>
  /\ UNCHANGED <<getter, getterItem, displayed>>
  /\ UNCHANGED <<current, active_actions_map, action_blockers, blockerKeys, strategySkipped>>

----
\* ActionBase._await, from the point where the handler task is over.
\* `res` is how the handler task ended: "ok" (returned), "skip" (ActionSkip),
\* "runerr" (ActionRunError raised by fail()) or "exc" (any other Exception).

Over == {"ok", "skip", "runerr", "exc"}

\* (TailStatusNoSuccess: a variant whose `else` branch assigns nothing)
TailStatusNoSuccess(a, res) ==
  IF res = "exc" /\ fut[a] = "pending" THEN "FAILURE" ELSE status[a]
TailStatus(a, res) ==
  IF res = "ok" THEN "SUCCESS"
  ELSE IF res = "exc" /\ fut[a] = "pending" THEN "FAILURE"   \* _internal_fail
  ELSE status[a]

TailFut(a, res) ==
  IF fut[a] # "pending" THEN fut[a]
  ELSE IF res \in {"ok", "skip"} THEN "result"
  ELSE IF res = "exc" THEN "exception"
  ELSE fut[a]

TailRaises(res) == res \in {"runerr", "exc"}

\* ActionBase._await when it does not have to suspend: the future is done
\* (fut.result() returns or raises), or the handler task is already over.
\* (AwaitReturnsAlways: a variant that never suspends)
AwaitReturnsAlways(a) == TRUE
AwaitReturns(a) == fut[a] # "pending" \/ running_task[a] \in Over
ImmStatus(a) == IF fut[a] # "pending" THEN status[a] ELSE TailStatus(a, running_task[a])
ImmFut(a) == IF fut[a] # "pending" THEN fut[a] ELSE TailFut(a, running_task[a])
ImmRaises(a) == IF fut[a] # "pending" THEN fut[a] = "exception" ELSE TailRaises(running_task[a])

\* The callbacks released when `newFut` completes the future of a.
Released(a, newFut) == IF fut[a] = "pending" /\ newFut # "pending" THEN FutCallbacks(a) ELSE <<>>
CbsAfter(a, newFut) == IF fut[a] = "pending" /\ newFut # "pending" THEN <<>> ELSE futCbs[a]

\* ActionBase._await, first part, when it has to suspend: allocate the
\* handler task if there is none (status RUNNING), then await it.
Suspend(task, a, rdy) ==
  /\ running_task' = [running_task EXCEPT ![a] = IF @ = "none" THEN "ready" ELSE @]
  /\ status' = [status EXCEPT ![a] = IF running_task[a] = "none" THEN "RUNNING" ELSE @]
  /\ taskWaiters' = [taskWaiters EXCEPT ![a] = Append(@, task)]
  /\ ready' = IF running_task[a] = "none" THEN Append(rdy, Step(HandlerTask(a))) ELSE rdy

\* BaseStrategy._skip_action
\* (SkipActionNoStatus: a variant of skip() that leaves the status alone)
SkipActionNoStatus(a) ==
  /\ status' = status
  /\ strategySkipped' = strategySkipped \cup {a}
SkipAction(a) ==
  /\ status' = [status EXCEPT ![a] = "SKIPPED"]
  /\ strategySkipped' = strategySkipped \cup {a}

----
\* SequentialStrategy.__anext__ (and StrictSequentialStrategy)

Sequential == strategy \in {"sequential", "strict-sequential"}

\* `await self._current`
SequentialAwait ==
  /\ Running /\ mainPc = "anext" /\ Sequential
  /\ IF current = NoAction
       THEN /\ mainPc' = "seq_pop"
            /\ UNCHANGED <<actionVars, ready, cur>>
       ELSE IF AwaitReturns(current)
         THEN /\ status' = [status EXCEPT ![current] = ImmStatus(current)]
              /\ fut' = [fut EXCEPT ![current] = ImmFut(current)]
              /\ futCbs' = [futCbs EXCEPT ![current] = CbsAfter(current, ImmFut(current))]
              /\ ready' = ready \o Released(current, ImmFut(current))
              /\ mainPc' = IF ImmRaises(current) /\ STRICT(strategy) THEN "seq_skip" ELSE "seq_pop"
              /\ UNCHANGED <<yielded_keys, event_queue, running_task, phase, taskWaiters, cur>>
         ELSE /\ Suspend(MainTask, current, ready)
              /\ mainPc' = "seq_await"
              /\ cur' = "none"
              /\ UNCHANGED <<fut, futCbs, yielded_keys, event_queue, phase>>
  /\ UNCHANGED <<mainArg, mainWaitTask, finIdx, background_tasks, started, finished, result>>
  /\ UNCHANGED <<runVars, dispVars, stratVars, confVars, waiting>>

\* ... resumed when the handler task of self._current is over
SequentialResume ==
  /\ Pop(Step(MainTask))
  /\ mainPc = "seq_await"
  /\ LET a == current
         res == running_task[a]
     IN /\ status' = [status EXCEPT ![a] = TailStatus(a, res)]
        /\ fut' = [fut EXCEPT ![a] = TailFut(a, res)]
        /\ futCbs' = [futCbs EXCEPT ![a] = CbsAfter(a, TailFut(a, res))]
        /\ ready' = Tail(ready) \o Released(a, TailFut(a, res))
        /\ mainPc' = IF TailRaises(res) /\ STRICT(strategy) THEN "seq_skip" ELSE "seq_pop"
  /\ cur' = "main"
  /\ UNCHANGED <<yielded_keys, event_queue, running_task, phase, taskWaiters>>
  /\ UNCHANGED <<mainArg, mainWaitTask, finIdx, background_tasks, started, finished, result>>
  /\ UNCHANGED <<runVars, dispVars, stratVars, confVars, waiting>>

\* `while True: next_action = await super().__anext__(); self._skip_action(next_action)`
SequentialSkip ==
  /\ Running /\ mainPc = "seq_skip"
  /\ IF unprocessed = <<>>
       THEN /\ mainPc' = "fin"
            /\ UNCHANGED <<status, strategySkipped, unprocessed>>
       ELSE /\ SkipAction(Head(unprocessed))
            /\ unprocessed' = Tail(unprocessed)
            /\ UNCHANGED mainPc
  /\ UNCHANGED <<fut, futCbs, yielded_keys, event_queue, running_task, phase, taskWaiters>>
  /\ UNCHANGED <<mainArg, mainWaitTask, finIdx, background_tasks, started, finished, result>>
  /\ UNCHANGED <<current, active_actions_map, action_blockers, blockerKeys, yieldedSeq>>
  /\ UNCHANGED <<runVars, dispVars, confVars, waiting, ready, cur>>

\* `self._current = await super().__anext__(); return self._current`
SequentialPop ==
  /\ Running /\ mainPc = "seq_pop"
  /\ IF unprocessed = <<>>
       THEN /\ mainPc' = "fin"
            /\ UNCHANGED <<background_tasks, runPc, dispPc, ready, yieldedSeq, unprocessed, current>>
       ELSE /\ unprocessed' = Tail(unprocessed)
            /\ current' = Head(unprocessed)
            /\ Allocate(Head(unprocessed), ready)
  /\ UNCHANGED <<mainArg, mainWaitTask, finIdx, started, finished, result, cur, waiting>>
  /\ UNCHANGED <<actionVars, confVars, renderRes, outcomes, had_failed_actions, errors>>
  /\ UNCHANGED <<getter, getterItem, displayed>>
  /\ UNCHANGED <<active_actions_map, action_blockers, blockerKeys, strategySkipped>>

----
\* LooseStrategy (and StrictStrategy)

Loose == strategy \in {"loose", "strict"}

\* LooseStrategy._get_maybe_next_action: the entries of _action_blockers
\* are scanned in insertion order; each scanned entry loses its done
\* ancestors; the first entry left empty is popped and becomes active.
\* (DoneNamesStarted: a variant that takes every started action for done)
DoneNamesStarted == {a \in Names : status[a] # "PENDING"}
DoneNames == {a \in Names : done(a)}
\* (UnblockedStale: a variant that tests the blockers before the done
\* ancestors are taken out of them)
UnblockedStale == {a \in blockerKeys : action_blockers[a] = {}}
Unblocked == {a \in blockerKeys : action_blockers[a] \ DoneNames = {}}
HasNext == Unblocked # {}
NextAction == CHOOSE a \in Unblocked : \A b \in Unblocked : Pos(a) <= Pos(b)
Scanned == IF HasNext THEN {a \in blockerKeys : Pos(a) <= Pos(NextAction)} ELSE blockerKeys

\* (get_maybe_next_action_kept: a variant that does not pop the entry it returns)
get_maybe_next_action_kept ==
  /\ action_blockers' = [a \in Names |-> IF a \in Scanned THEN action_blockers[a] \ DoneNames
                                          ELSE action_blockers[a]]
  /\ blockerKeys' = blockerKeys

get_maybe_next_action ==
  /\ action_blockers' = [a \in Names |-> IF a \in Scanned THEN action_blockers[a] \ DoneNames
                                          ELSE action_blockers[a]]
  /\ blockerKeys' = IF HasNext THEN blockerKeys \ {NextAction} ELSE blockerKeys

\* asyncio.wait(futures, return_when=FIRST_COMPLETED) called by `task`:
\* a completion callback is attached to every future; on a future that
\* is already done it is handed to the loop at once.
WaitAttached(task, as) ==
  [a \in Names |-> IF a \in as /\ fut[a] = "pending" THEN Append(futCbs[a], task) ELSE futCbs[a]]
WaitImmediate(task, as) ==
  [i \in 1..Cardinality({a \in as : fut[a] # "pending"}) |-> WaitCb(task)]

\* ... and when it returns, its callback is detached from the futures;
\* callbacks of it still queued find the waiter done and do nothing.
WaitDetached(task) == [a \in Names |-> Remove(futCbs[a], task)]
Stale(task) == <<"stale", task>>
WaitOver(rdy, task) == [i \in 1..Len(rdy) |-> IF rdy[i] = WaitCb(task) THEN Stale(task) ELSE rdy[i]]

\* LooseStrategy._next_action up to `await asyncio.wait(...)`
LooseNext ==
  /\ Running /\ mainPc = "anext" /\ Loose
  /\ get_maybe_next_action
  /\ IF HasNext
       THEN /\ active_actions_map' = active_actions_map \cup {NextAction}
            /\ mainArg' = NextAction
            /\ mainPc' = "check"
            /\ UNCHANGED <<futCbs, waiting, ready, cur, result>>
       ELSE IF active_actions_map = {}
         THEN \* asyncio.wait() raises ValueError on an empty collection
              /\ mainPc' = "done"
              /\ result' = "ValueError"
              /\ cur' = "none"
              /\ UNCHANGED <<futCbs, waiting, ready, active_actions_map, mainArg>>
         ELSE /\ futCbs' = WaitAttached(MainTask, active_actions_map)
              /\ ready' = ready \o WaitImmediate(MainTask, active_actions_map)
              /\ waiting' = waiting \cup {MainTask}
              /\ mainPc' = "loose_wait"
              /\ cur' = "none"
              /\ UNCHANGED <<active_actions_map, mainArg, result>>
  /\ UNCHANGED <<status, fut, yielded_keys, event_queue, running_task, phase, taskWaiters>>
  /\ UNCHANGED <<mainWaitTask, finIdx, background_tasks, started, finished>>
  /\ UNCHANGED <<unprocessed, current, yieldedSeq, strategySkipped>>
  /\ UNCHANGED <<runVars, dispVars, confVars>>

\* LooseStrategy._next_action after `await asyncio.wait(...)`
LooseResume ==
  /\ Pop(Step(MainTask))
  /\ mainPc = "loose_wait"
  /\ futCbs' = WaitDetached(MainTask)
  /\ ready' = WaitOver(Tail(ready), MainTask)
  /\ get_maybe_next_action
  /\ active_actions_map' = {a \in active_actions_map : ~done(a)}
                             \cup (IF HasNext THEN {NextAction} ELSE {})
  /\ IF HasNext
       THEN mainArg' = NextAction /\ mainPc' = "check"
       ELSE mainPc' = "fin" /\ UNCHANGED mainArg
  /\ cur' = "main"
  /\ UNCHANGED <<status, fut, yielded_keys, event_queue, running_task, phase, taskWaiters>>
  /\ UNCHANGED <<mainWaitTask, finIdx, background_tasks, started, finished, result>>
  /\ UNCHANGED <<unprocessed, current, yieldedSeq, strategySkipped>>
  /\ UNCHANGED <<runVars, dispVars, confVars, waiting>>

\* LooseStrategy.__anext__: the ancestors of the candidate are inspected
\* (StrictFailureOmitted: a variant that takes an ancestor left out of the
\* plan for a failed one)
StrictFailureOmitted(a) ==
  \E anc \in net.ancestors[a] :
     /\ status[anc] \in {"FAILURE", "SKIPPED", "OMITTED"}
     /\ (anc \in net.strict[a] \/ STRICT(strategy))
\* (StrictFailureAnyEdge: a variant that ignores the strictness of the edge)
StrictFailureAnyEdge(a) ==
  \E anc \in net.ancestors[a] : status[anc] \in {"FAILURE", "SKIPPED"}
StrictFailure(a) ==
  \E anc \in net.ancestors[a] :
     /\ status[anc] \in {"FAILURE", "SKIPPED"}
     /\ (anc \in net.strict[a] \/ STRICT(strategy))

LooseCheck ==
  /\ Running /\ mainPc = "check"
  /\ IF StrictFailure(mainArg)
       THEN /\ SkipAction(mainArg)
            /\ mainPc' = "anext"
            /\ UNCHANGED <<background_tasks, runPc, dispPc, ready, yieldedSeq>>
       ELSE /\ Allocate(mainArg, ready)
            /\ UNCHANGED <<status, strategySkipped>>
  /\ UNCHANGED <<fut, futCbs, yielded_keys, event_queue, running_task, phase, taskWaiters>>
  /\ UNCHANGED <<mainArg, mainWaitTask, finIdx, started, finished, result, cur, waiting>>
  /\ UNCHANGED <<confVars, renderRes, outcomes, had_failed_actions, errors>>
  /\ UNCHANGED <<getter, getterItem, displayed>>
  /\ UNCHANGED <<unprocessed, current, active_actions_map, action_blockers, blockerKeys>>

----
\* Runner.run_async after the iteration: the background tasks are awaited
\* in order, then display.on_finish, then ExecutionFailed if any action failed.

Pending == {i \in finIdx..Len(background_tasks) : ~TaskDone(background_tasks[i])}
FirstPending == CHOOSE i \in Pending : \A j \in Pending : i <= j

\* BaseDisplay.on_finish returns, or the display given to the Runner
\* overrides it with a method that raises (the display of test_bad_display).
OnFinishRaises == BOOLEAN

Finalize ==
  /\ Running /\ mainPc = "fin"
  /\ IF Pending = {}
       THEN /\ finished' = finished + 1
            /\ \E raised \in OnFinishRaises :
                 result' = IF raised THEN "RuntimeError"
                           ELSE IF had_failed_actions THEN "ExecutionFailed" ELSE "ok"
            /\ mainPc' = "done"
            /\ finIdx' = Len(background_tasks) + 1
            /\ UNCHANGED mainWaitTask
       ELSE /\ mainWaitTask' = background_tasks[FirstPending]
            /\ finIdx' = FirstPending
            /\ mainPc' = "fin_wait"
            /\ UNCHANGED <<finished, result>>
  /\ cur' = "none"
  /\ UNCHANGED <<mainArg, background_tasks, started>>
  /\ UNCHANGED <<actionVars, runVars, dispVars, stratVars, confVars, waiting, ready>>

FinalizeResume ==
  /\ Pop(Step(MainTask))
  /\ mainPc = "fin_wait"
  /\ mainWaitTask' = <<"none", NoAction>>
  /\ finIdx' = finIdx + 1
  /\ mainPc' = "fin"
  /\ cur' = "main"
  /\ ready' = Tail(ready)
  /\ UNCHANGED <<mainArg, background_tasks, started, finished, result>>
  /\ UNCHANGED <<actionVars, runVars, dispVars, stratVars, confVars, waiting>>

\* run_sync / run_async called on the same Runner after its run is over:
\* the call raises at the check of _started, or else goes on to iterate a
\* strategy over the same net.
run_again ==
  /\ mainPc = "done" /\ cur = "none" /\ ready = <<>>
  /\ IF Refused
       THEN /\ mainPc' = "raised"
            /\ UNCHANGED <<cur, started>>
       ELSE /\ started' = TRUE
            /\ mainPc' = "anext"
            /\ cur' = "main"
  /\ UNCHANGED <<mainArg, mainWaitTask, finIdx, background_tasks, finished, result>>
  /\ UNCHANGED <<actionVars, runVars, dispVars, stratVars, confVars, waiting, ready, batch>>

----
\* The event loop (asyncio's BaseEventLoop._run_once): completed I/O is
\* collected between two iterations, then the callbacks that are ready at
\* that moment are run in order.

\* The I/O a suspended handler waits for completes; the handler is resumed.
IOComplete(a) ==
  /\ cur = "none" /\ batch = 0
  /\ running_task[a] = "io"
  /\ running_task' = [running_task EXCEPT ![a] = "ready"]
  /\ ready' = Append(ready, Step(HandlerTask(a)))
  /\ UNCHANGED <<status, fut, futCbs, yielded_keys, event_queue, phase, taskWaiters>>
  /\ UNCHANGED <<runVars, dispVars, mainVars, stratVars, confVars, waiting, cur, batch>>

RunOnce ==
  /\ cur = "none" /\ batch = 0
  /\ ready # <<>>
  /\ batch' = Len(ready)
  /\ UNCHANGED <<actionVars, runVars, dispVars, mainVars, stratVars, confVars, waiting, ready, cur>>

\* The completion callback of asyncio.wait(): the first one completes the
\* waiter, which resumes the waiting task.
WaitCallback(task) ==
  /\ Pop(WaitCb(task))
  /\ waiting' = waiting \ {task}
  /\ ready' = IF task \in waiting THEN Append(Tail(ready), Step(task)) ELSE Tail(ready)
  /\ UNCHANGED <<actionVars, runVars, dispVars, mainVars, stratVars, confVars, cur>>

\* A completion callback of an asyncio.wait() that has returned.
StaleCallback(task) ==
  /\ Pop(Stale(task))
  /\ ready' = Tail(ready)
  /\ UNCHANGED <<actionVars, runVars, dispVars, mainVars, stratVars, confVars, waiting, cur>>

----
\* The action's handler: ActionBase.run of some subclass, as a task.
\* Each round it emits an event and reports an outcome; then it either
\* suspends on I/O, returns, raises, calls fail() or calls skip().

Key == "k"

HandlerEnds(a) == {"ok", "exc", "runerr", "skip"} \cup (IF ios < MaxIO THEN {"io"} ELSE {})

\* ActionBase.emit: Queue.put_nowait wakes the getter that waits for an item.
EmitWakes(a) == IF getter[a] = "waiting" THEN <<Step(GetterTask(a))>> ELSE <<>>

\* The handler that ends with "exc" raises by calling disable() on itself
\* (test_misplaced_disable_context): the call raises RuntimeError unless
\* disable() accepts the status, in which case the handler returns.
DisableAccepted(a, end) == end = "exc" /\ disableAllowed(status[a])
HandlerResult(a, end) == IF DisableAccepted(a, end) THEN "ok" ELSE end

\* ActionBase.fail -> _internal_fail; ActionBase.skip -> _internal_skip
HandlerStatus(a, end) ==
  IF DisableAccepted(a, end) THEN "OMITTED"
  ELSE IF end = "runerr" /\ fut[a] = "pending" THEN "FAILURE"
  ELSE IF end = "skip" THEN "SKIPPED"
  ELSE status[a]
HandlerFut(a, end) ==
  IF DisableAccepted(a, end) /\ fut[a] = "pending" THEN "result"
  ELSE IF end = "runerr" /\ fut[a] = "pending" THEN "exception" ELSE fut[a]

run(a) ==
  /\ Pop(Step(HandlerTask(a)))
  /\ running_task[a] = "ready"
  /\ \E end \in HandlerEnds(a) :
       /\ phase' = [phase EXCEPT ![a] = @ + 1]
       /\ event_queue' = [event_queue EXCEPT ![a] = Append(@, phase[a] + 1)]
       /\ getter' = [getter EXCEPT ![a] = IF @ = "waiting" THEN "woken" ELSE @]
       /\ yielded_keys' = [yielded_keys EXCEPT ![a] = (Key :> (phase[a] + 1))]
       /\ running_task' = [running_task EXCEPT ![a] = HandlerResult(a, end)]
       /\ ios' = IF end = "io" THEN ios + 1 ELSE ios
       /\ status' = [status EXCEPT ![a] = HandlerStatus(a, end)]
       /\ fut' = [fut EXCEPT ![a] = HandlerFut(a, end)]
       /\ futCbs' = [futCbs EXCEPT ![a] = CbsAfter(a, HandlerFut(a, end))]
       /\ taskWaiters' = [taskWaiters EXCEPT ![a] = IF end = "io" THEN @ ELSE <<>>]
       /\ ready' = Tail(ready) \o EmitWakes(a) \o Released(a, HandlerFut(a, end))
                     \o (IF end = "io" THEN <<>> ELSE TaskCallbacks(a))
  /\ UNCHANGED <<runVars, mainVars, stratVars, strategy, net, disabled, libVars, waiting, cur>>
  /\ UNCHANGED <<dispPc, getterItem, displayed>>

----
\* Runner._run_action, as a background task

\* Runner._render_action.  The template of the action's arguments is
\* plain text, an expression that cannot be evaluated, or a reference to
\* outcomes.<name>.<Key> (_string_template_process_expression).
Templates == {"plain", "bad"} \cup Names
Renders(tmpl) == tmpl = "plain" \/ (tmpl \in Names /\ HasKey(OutcomesGet(tmpl), Key))

\* `finally: self._outcomes[action.name] = action.get_outcomes()`
\* (SnapshotNothing: a variant that stores nothing)
SnapshotNothing(a) == outcomes
Snapshot(a) == outcomes \cup {a}

\* what `except Exception` of _run_action does
Failed(a, raised) ==
  /\ errors' = [errors EXCEPT ![a] = IF raised THEN @ + 1 ELSE @]
  /\ had_failed_actions' = (had_failed_actions \/ raised)

RunStart(a) ==
  /\ Pop(Step(RunTask(a)))
  /\ runPc[a] = "ready"
  /\ \E tmpl \in Templates :
       IF ~Renders(tmpl)
         THEN \* emit_action_error, action._internal_fail(e), return
              /\ renderRes' = [renderRes EXCEPT ![a] = "fail"]
              /\ Failed(a, TRUE)
              /\ status' = [status EXCEPT ![a] = IF fut[a] = "pending" THEN "FAILURE" ELSE @]
              /\ fut' = [fut EXCEPT ![a] = IF @ = "pending" THEN "exception" ELSE @]
              /\ futCbs' = [futCbs EXCEPT ![a] = CbsAfter(a, "exception")]
              /\ ready' = Tail(ready) \o Released(a, "exception") \o MainWake(RunTask(a))
              /\ runPc' = [runPc EXCEPT ![a] = "done"]
              /\ UNCHANGED <<running_task, taskWaiters, outcomes>>
         ELSE /\ renderRes' = [renderRes EXCEPT ![a] = "ok"]
              /\ IF AwaitReturns(a)
                   THEN /\ status' = [status EXCEPT ![a] = ImmStatus(a)]
                        /\ fut' = [fut EXCEPT ![a] = ImmFut(a)]
                        /\ futCbs' = [futCbs EXCEPT ![a] = CbsAfter(a, ImmFut(a))]
                        /\ Failed(a, ImmRaises(a))
                        /\ outcomes' = Snapshot(a)
                        /\ ready' = Tail(ready) \o Released(a, ImmFut(a)) \o MainWake(RunTask(a))
                        /\ runPc' = [runPc EXCEPT ![a] = "done"]
                        /\ UNCHANGED <<running_task, taskWaiters>>
                   ELSE /\ Suspend(RunTask(a), a, Tail(ready))
                        /\ runPc' = [runPc EXCEPT ![a] = "await"]
                        /\ UNCHANGED <<fut, futCbs, errors, had_failed_actions, outcomes>>
  /\ UNCHANGED <<yielded_keys, event_queue, phase>>
  /\ UNCHANGED <<dispVars, mainVars, stratVars, confVars, waiting, cur>>

\* ... resumed when the handler task is over
RunResume(a) ==
  /\ Pop(Step(RunTask(a)))
  /\ runPc[a] = "await"
  /\ LET res == running_task[a]
     IN /\ status' = [status EXCEPT ![a] = TailStatus(a, res)]
        /\ fut' = [fut EXCEPT ![a] = TailFut(a, res)]
        /\ futCbs' = [futCbs EXCEPT ![a] = CbsAfter(a, TailFut(a, res))]
        /\ Failed(a, TailRaises(res))
        /\ ready' = Tail(ready) \o Released(a, TailFut(a, res)) \o MainWake(RunTask(a))
  /\ outcomes' = Snapshot(a)
  /\ runPc' = [runPc EXCEPT ![a] = "done"]
  /\ UNCHANGED <<yielded_keys, event_queue, running_task, phase, taskWaiters>>
  /\ UNCHANGED renderRes
  /\ UNCHANGED <<dispVars, mainVars, stratVars, confVars, waiting, cur>>

----
\* Runner._dispatch_action_events_to_display over ActionBase.read_events,
\* as a background task

Live == {"created", "waiting", "woken"}

\* read_events, head of the loop: a queue_getter task is created and
\* asyncio.wait([future, queue_getter]) is entered.
ReadWait(a, rdy) ==
  /\ getter' = [getter EXCEPT ![a] = "created"]
  /\ futCbs' = [futCbs EXCEPT ![a] = IF fut[a] = "pending" THEN Append(Remove(@, DispTask(a)), DispTask(a))
                                     ELSE Remove(@, DispTask(a))]
  /\ ready' = rdy \o <<Step(GetterTask(a))>>
                  \o (IF fut[a] = "pending" THEN <<>> ELSE <<WaitCb(DispTask(a))>>)
  /\ waiting' = waiting \cup {DispTask(a)}

read_events(a) ==
  /\ Pop(Step(DispTask(a)))
  /\ dispPc[a] = "ready"
  /\ ReadWait(a, Tail(ready))
  /\ dispPc' = [dispPc EXCEPT ![a] = "wait"]
  /\ UNCHANGED <<status, fut, yielded_keys, event_queue, running_task, phase, taskWaiters>>
  /\ UNCHANGED <<getterItem, displayed>>
  /\ UNCHANGED <<runVars, mainVars, stratVars, confVars, cur>>

\* ... after asyncio.wait: the getter's item is yielded if it has one;
\* if the action is done the queue is drained and the generator returns,
\* otherwise the loop starts over.  Every item goes to emit_action_message.
ReadResume(a) ==
  /\ Pop(Step(DispTask(a)))
  /\ dispPc[a] = "wait"
  /\ LET got == IF getter[a] = "done" THEN <<getterItem[a]>> ELSE <<>>
         rdy == WaitOver(Tail(ready), DispTask(a))
     IN IF done(a)
          THEN /\ displayed' = [displayed EXCEPT ![a] = @ \o got \o event_queue[a]]
               /\ event_queue' = [event_queue EXCEPT ![a] = <<>>]
               /\ getter' = [getter EXCEPT ![a] = IF @ \in Live THEN "cancelled" ELSE @]
               /\ futCbs' = [futCbs EXCEPT ![a] = Remove(@, DispTask(a))]
               /\ ready' = rdy \o (IF getter[a] = "waiting" THEN <<Step(GetterTask(a))>> ELSE <<>>)
                               \o MainWake(DispTask(a))
               /\ dispPc' = [dispPc EXCEPT ![a] = "done"]
               /\ UNCHANGED waiting
          ELSE /\ displayed' = [displayed EXCEPT ![a] = @ \o got]
               /\ ReadWait(a, rdy)
               /\ UNCHANGED <<event_queue, dispPc>>
  /\ getterItem' = [getterItem EXCEPT ![a] = 0]
  /\ UNCHANGED <<status, fut, yielded_keys, running_task, phase, taskWaiters>>
  /\ UNCHANGED <<runVars, mainVars, stratVars, confVars, cur>>

\* The queue_getter task: asyncio.Queue.get.  It takes the first item, or
\* waits until put_nowait wakes it; a cancelled getter takes nothing.
queue_getter(a) ==
  /\ Pop(Step(GetterTask(a)))
  /\ IF getter[a] \in {"created", "woken"}
       THEN IF event_queue[a] # <<>>
              THEN /\ getterItem' = [getterItem EXCEPT ![a] = Head(event_queue[a])]
                   /\ event_queue' = [event_queue EXCEPT ![a] = Tail(@)]
                   /\ getter' = [getter EXCEPT ![a] = "done"]
                   /\ ready' = Append(Tail(ready), WaitCb(DispTask(a)))
              ELSE /\ getter' = [getter EXCEPT ![a] = "waiting"]
                   /\ ready' = Tail(ready)
                   /\ UNCHANGED <<getterItem, event_queue>>
       ELSE /\ ready' = Tail(ready)
            /\ UNCHANGED <<getter, getterItem, event_queue>>
  /\ UNCHANGED <<status, fut, futCbs, yielded_keys, running_task, phase, taskWaiters>>
  /\ UNCHANGED <<dispPc, displayed>>
  /\ UNCHANGED <<runVars, mainVars, stratVars, confVars, waiting, cur>>

----
Tasks == {MainTask} \cup {DispTask(a) : a \in Names}

Next ==
  \/ \E a \in Names : disable(a)
  \/ run_async
  \/ FreeStrategy
  \/ SequentialAwait
  \/ SequentialResume
  \/ SequentialSkip
  \/ SequentialPop
  \/ LooseNext
  \/ LooseResume
  \/ LooseCheck
  \/ Finalize
  \/ FinalizeResume
  \/ run_again
  \/ RunOnce
  \/ \E a \in Names : IOComplete(a)
  \/ \E t \in Tasks : WaitCallback(t)
  \/ \E t \in Tasks : StaleCallback(t)
  \/ \E a \in Names : run(a)
  \/ \E a \in Names : RunStart(a)
  \/ \E a \in Names : RunResume(a)
  \/ \E a \in Names : read_events(a)
  \/ \E a \in Names : ReadResume(a)
  \/ \E a \in Names : queue_getter(a)

Spec == Init /\ [][Next]_vars

TypeOK ==
  /\ status \in [Names -> ActionStatus]
  /\ fut \in [Names -> {"pending", "result", "exception"}]
  /\ running_task \in [Names -> {"none", "ready", "io"} \cup Over]
  /\ batch \in 0..Len(ready)
  /\ cur \in {"none", "main"}

----
\* ActionNet: the build of the workflow's graph (actions/net.py).  The
\* actions handed to ActionNet() are those of Names; each declares, for
\* every name it depends on, a dependency that is external or not ("no":
\* it does not depend on that name).  The names of Absent are no actions.

Absent == {"m1", "m2"}
DepNames == Names \cup Absent
Alphabet == <<"a1", "a2", "a3", "m1", "m2">>

\* Most dependencies one action declares.
MaxDeps == 2

DepMaps == {d \in [DepNames -> {"no", "dep", "ext"}] :
              Cardinality({b \in DepNames : d[b] # "no"}) <= MaxDeps}
Graphs == [Names -> DepMaps]

\* sorted(names)
sorted(S) == SelectSeq(Alphabet, LAMBDA n : n \in S)

\* _establish_descendants: action.ancestors once the missing external
\* dependencies are popped
\* (ancestorsUnpruned: a variant that keeps them)
ancestorsUnpruned(g, a) == {b \in DepNames : g[a][b] # "no"}
ancestors(g, a) == {b \in DepNames : g[a][b] # "no" /\ ~(b \notin Names /\ g[a][b] = "ext")}

\* _establish_descendants: `self[dependency_action_name].descendants[action.name] = dependency`
descendants(g, a) == {d \in Names : g[d][a] # "no"}

missing_non_external_deps(g) == {b \in Absent : \E a \in Names : g[a][b] = "dep"}

\* `if not action.ancestors: self._entrypoints.add(action.name)`
entrypoints(g) == {a \in Names : ancestors(g, a) = {}}

\* _allocate_tiers: the loop, entered with the names of the current tier;
\* gives action_name_to_tier_mapping
RECURSIVE allocate_tiers(_, _, _, _)
allocate_tiers(g, current_tier, step_tier, mapping) ==
  LET fresh == current_tier \ DOMAIN mapping
      mapped == [n \in DOMAIN mapping \cup fresh |->
                   IF n \in DOMAIN mapping THEN mapping[n] ELSE step_tier]
      next_tier == UNION {descendants(g, n) : n \in fresh}
  IN IF next_tier = {} THEN mapped ELSE allocate_tiers(g, next_tier, step_tier + 1, mapped)

\* `{action.name for action in self.values() if action.name not in action_name_to_tier_mapping}`
\* (unreachable_none: a variant that finds none)
unreachable_none(tiers) == {}
unreachable_action_names(tiers) == Names \ DOMAIN tiers

IntegrityError(text, names) ==
  [error |-> "IntegrityError", message |-> text, names |-> sorted(names),
   ancestors |-> <<>>, entrypoints |-> {}, tier |-> <<>>]

\* ActionNet.__init__
ActionNet(g) ==
  IF missing_non_external_deps(g) # {}
    THEN IntegrityError("Missing actions among dependencies", missing_non_external_deps(g))
  ELSE IF entrypoints(g) = {}
    THEN IntegrityError("No entrypoints for the graph", {})
  ELSE LET tiers == allocate_tiers(g, entrypoints(g), 0, <<>>)
       IN IF unreachable_action_names(tiers) # {}
            THEN IntegrityError("Unreachable actions found", unreachable_action_names(tiers))
            ELSE [error |-> "none", message |-> "", names |-> <<>>,
                  ancestors |-> [a \in Names |-> ancestors(g, a)],
                  entrypoints |-> entrypoints(g), tier |-> tiers]

\* The workflow is built: ActionNet(...) returns or raises.
build ==
  /\ graph \in Graphs /\ built = NotBuilt
  /\ built' = ActionNet(graph)
  /\ UNCHANGED <<actionVars, runVars, dispVars, mainVars, stratVars, waiting, ready, cur, batch>>
  /\ UNCHANGED <<strategy, net, disabled, ios, graph, message, scan, template, rendered, context_map, templar, moreVars>>

NetInit ==
  /\ RunnerInit /\ strategy = "loose" /\ net = StrictChain
  /\ graph \in Graphs /\ built = NotBuilt
  /\ ScanIdle /\ LexIdle /\ TemplarIdle /\ MoreIdle

NetNext == build

NetSpec == NetInit /\ [][NetNext]_vars

----
\* EmissionScannerActionBase.emit (actions/base.py).  A text is a sequence
\* of tokens (tuples); a line is a text `prefix` followed by its `end`:
\* nothing (Plain), an expression that ends with "]##" and is no outcome
\* sentinel (Unknown, as `##cjunct[what-is-this-expression]##`), or
\* `##cjunct[yield-outcome-b64 <key> <value>]##` (Sentinel).  An operand of
\* a sentinel is the base64 encoding of a string or is no base64 ("+").

Chars == {<<"p">>, <<"q">>}
NewLine == <<"\n">>
Plain == <<>>
Keys == {"k1", "k2"}
Values == {"", "v1", "v2"}

\* Most lines of one message.
MaxLines == 2

b64encode(str) == <<"b64", str>>
NotBase64 == <<"+">>
Unknown == <<"##cjunct[what-is-this-expression]##">>
Sentinel(ek, ev) == <<"##cjunct[yield-outcome-b64", ek, ev, "]##">>

Sentinels == {Sentinel(ek, ev) : ek \in {b64encode(k) : k \in Keys} \cup {NotBase64},
                                  ev \in {b64encode(v) : v \in Values} \cup {NotBase64}}
Prefixes == {<<>>} \cup {<<c>> : c \in Chars}
Lines == [prefix : Prefixes, end : {Plain, Unknown} \cup Sentinels]
Messages == [stderr : BOOLEAN, lines : UNION {[1..n -> Lines] : n \in 0..MaxLines}]

\* The text of a line, and of a whole message ("\n" between its lines).
LineText(line) == line.prefix \o (IF line.end = Plain THEN <<>> ELSE <<line.end>>)
RECURSIVE MessageText(_)
MessageText(lines) ==
  IF lines = <<>> THEN <<>>
  ELSE IF Len(lines) = 1 THEN LineText(lines[1])
  ELSE LineText(lines[1]) \o <<NewLine>> \o MessageText(Tail(lines))

\* `line.endswith("]##")`
endswith(line) == line.end # Plain

\* _YIELD_SCAN_PATTERN.findall(line): one match or none
matches(line) == line.end \in Sentinels

\* base64.b64decode(operand, validate=True).decode() raises
Undecodable(operand) == operand[1] # "b64"
b64decode(operand) == operand[2]

\* ActionBase.yield_outcome: `self._yielded_keys[key] = value`
\* (yield_outcomeFirst: a variant that keeps the value a key already has)
yield_outcomeFirst(keys, key, value) ==
  IF \E kv \in keys : kv[1] = key THEN keys ELSE keys \cup {<<key, value>>}
yield_outcome(keys, key, value) ==
  {kv \in keys : kv[1] # key} \cup {<<key, value>>}

\* ActionBase.emit: `self._event_queue.put_nowait(message)`
put_nowait(events, stderr, text) == Append(events, [stderr |-> stderr, text |-> text])

\* The loop of emit over the lines of a stdout message, from line i on,
\* and what follows the loop.
RECURSIVE scan_lines(_, _, _, _, _)
scan_lines(lines, i, memorized_prefix, events, keys) ==
  IF i > Len(lines)
    THEN [pc |-> "done",
          events |-> IF memorized_prefix # <<>> THEN put_nowait(events, FALSE, memorized_prefix)
                     ELSE events,
          outcomes |-> keys]
  ELSE LET line == lines[i]
       IN IF endswith(line) /\ matches(line)
            THEN LET ok == ~Undecodable(line.end[2]) /\ ~Undecodable(line.end[3])
                 IN scan_lines(lines, i + 1, memorized_prefix \o line.prefix, events,
                               IF ok THEN yield_outcome(keys, b64decode(line.end[2]),
                                                        b64decode(line.end[3]))
                               ELSE keys)
            ELSE scan_lines(lines, i + 1, <<>>,
                            put_nowait(events, FALSE, memorized_prefix \o LineText(line)),
                            keys)

\* `isinstance(message, Stderr)`
\* (isStderrNever: a variant that scans every message)
isStderrNever(msg) == FALSE
isStderr(msg) == msg.stderr

\* EmissionScannerActionBase.emit
emit ==
  /\ scan.pc = "ready"
  /\ scan' = IF isStderr(message)
               THEN [scan EXCEPT !.pc = "done",
                                 !.events = put_nowait(@, TRUE, MessageText(message.lines))]
               ELSE scan_lines(message.lines, 1, <<>>, scan.events, scan.outcomes)
  /\ UNCHANGED <<actionVars, runVars, dispVars, mainVars, stratVars, waiting, ready, cur, batch>>
  /\ UNCHANGED <<strategy, net, disabled, ios, graph, built, message, template, rendered, context_map, templar, moreVars>>

\* The action has yielded nothing so far, or one of the keys.
EmitInit ==
  /\ RunnerInit /\ strategy = "loose" /\ net = StrictChain
  /\ NetIdle /\ LexIdle /\ TemplarIdle /\ MoreIdle
  /\ message \in Messages
  /\ scan \in [pc : {"ready"}, events : {<<>>}, outcomes : {{}, {<<"k1", "v2">>}}]

EmitNext == emit

EmitSpec == EmitInit /\ [][EmitNext]_vars

----
\* Templar.render of rendering.py, a pure function of the template.
\* A template is a string of symbols: the at-sign, the braces, and "o" for
\* the text outcomes.Foo.bar (no at-sign and no brace in it).

Symbols == {"@", "{", "}", "o"}
MaxTemplate == 5
Strings == UNION {[1..n -> Symbols] : n \in 0..MaxTemplate}

\* data[first:last] of Python, for 0 <= first and 0 <= last
Slice(data, first, last) ==
  SubSeq(data, first + 1, IF last > Len(data) THEN Len(data) ELSE last)

\* str.replace("@", "@@")
RECURSIVE replace(_)
replace(str) ==
  IF str = <<>> THEN <<>>
  ELSE (IF Head(str) = "@" THEN <<"@", "@">> ELSE <<Head(str)>>) \o replace(Tail(str))

\* TemplarStringLexer._read_expression over data[caret:], from its i-th
\* symbol on: the tokenizer running out of tokens is StopIteration, the
\* closing brace gives tokenizer.position and the collected tokens.
RECURSIVE read_expression(_, _, _, _, _)
read_expression(data, caret, i, brace_depth, collected_tokens) ==
  IF caret + i > Len(data)
    THEN [stop |-> TRUE, position |-> 0, expression |-> <<>>]
  ELSE LET string == data[caret + i]
       IN IF string = "{"
            THEN read_expression(data, caret, i + 1, brace_depth + 1,
                                 Append(collected_tokens, string))
          ELSE IF string = "}"
            THEN IF brace_depth - 1 < 0
                   THEN [stop |-> FALSE, position |-> i - 1,
                         expression |-> collected_tokens]
                   ELSE read_expression(data, caret, i + 1, brace_depth - 1,
                                        Append(collected_tokens, string))
          ELSE read_expression(data, caret, i + 1, brace_depth,
                               Append(collected_tokens, string))

TEXT(str) == [type |-> "TEXT", string |-> str]
EXPRESSION(str) == [type |-> "EXPRESSION", string |-> str]

\* `if maybe_text := ...: yield self.TEXT, maybe_text`
maybe(lexemes, maybe_text) ==
  IF maybe_text # <<>> THEN Append(lexemes, TEXT(maybe_text)) ELSE lexemes

\* `armed_at = not armed_at`: each second "@" disengages the readiness
\* (toggleArmed: a variant in which every "@" arms the scanner)
toggleArmed(armed_at) == TRUE
toggle(armed_at) == ~armed_at

\* TemplarStringLexer.__iter__: the lexemes it yields, in order.  The caret
\* stays where the expression began, so the expression is scanned again
\* as symbols.
RECURSIVE lexer(_, _, _, _, _)
lexer(data, caret, armed_at, text_start, lexemes) ==
  IF caret >= Len(data)
    THEN maybe(lexemes, Slice(data, text_start, Len(data)))
  ELSE LET symbol == data[caret + 1]
           next == caret + 1
       IN IF symbol = "@"
            THEN lexer(data, next, toggle(armed_at), text_start, lexemes)
          ELSE IF symbol = "{" /\ armed_at
            THEN LET yielded == maybe(lexemes, Slice(data, text_start, next - 2))
                     read == read_expression(data, next, 1, 0, <<>>)
                 IN IF read.stop
                      THEN maybe(yielded, Slice(data, text_start, Len(data)))
                      ELSE lexer(data, next, FALSE, next + read.position + 1,
                                 Append(yielded, EXPRESSION(read.expression)))
          ELSE lexer(data, next, FALSE, text_start, lexemes)

TemplarStringLexer(data) == lexer(data, 0, FALSE, 0, <<>>)

\* Templar._string_template_process_expression: outcomes.Foo.bar is the
\* outcome "v" of an action Foo; any other expression here is an error.
Outcome == <<"v">>
Processable(expression) == expression = <<"o">>

\* Templar.render: the chunks joined, or the ActionRenderError of the
\* first expression that fails.
RECURSIVE chunks(_, _)
chunks(lexemes, i) ==
  IF i > Len(lexemes) THEN <<>>
  ELSE (IF lexemes[i].type = "EXPRESSION" THEN Outcome ELSE lexemes[i].string)
       \o chunks(lexemes, i + 1)

RenderedStringTemplate(data) ==
  LET lexemes == TemplarStringLexer(data)
  IN IF \E i \in 1..Len(lexemes) :
          lexemes[i].type = "EXPRESSION" /\ ~Processable(lexemes[i].string)
       THEN [error |-> "ActionRenderError", string |-> <<>>]
       ELSE [error |-> "none", string |-> chunks(lexemes, 1)]

render ==
  /\ template \in Strings /\ rendered = NotRendered
  /\ rendered' = RenderedStringTemplate(template)
  /\ UNCHANGED <<actionVars, runVars, dispVars, mainVars, stratVars, waiting, ready, cur, batch>>
  /\ UNCHANGED <<strategy, net, disabled, ios, graph, built, message, scan, template, context_map, templar, moreVars>>

LexInit ==
  /\ RunnerInit /\ strategy = "loose" /\ net = StrictChain
  /\ NetIdle /\ ScanIdle /\ TemplarIdle /\ MoreIdle
  /\ template \in Strings /\ rendered = NotRendered

LexNext == render

LexSpec == LexInit /\ [][LexNext]_vars

----
\* Templar of rendering/__init__.py rendering a context key.  A template is
\* the sequence of its lexemes: "text" for a TEXT lexeme, "status" for an
\* expression that needs no context (status.Foo), and a context key for the
\* expression context.<key>.

ContextKeys == {"c1", "c2"}
Lexemes == {"text", "status"} \cup ContextKeys
MaxLexemes == 2
MaxRenders == 2
ContextTemplates == UNION {[1..n -> Lexemes] : n \in 1..MaxLexemes}

\* rendering/constants.py
MAX_RECURSION_DEPTH == 4

\* Templar._qualify_string_as_potentially_renderable: `"@{" in data`
qualify_string_as_potentially_renderable(data) ==
  \E i \in 1..Len(data) : data[i] # "text"

\* Templar._load_ctx_node: a renderable string leaf is a deferred template,
\* `c.LazyProxy(lambda: self._internal_render(data))`; any other leaf is data.
LazyProxy(key) == qualify_string_as_potentially_renderable(context_map[key])

\* `if self._depth >= MAX_RECURSION_DEPTH`
\* (overflowNever: a variant without the check of the depth)
overflowNever(depth) == FALSE
overflow(depth) == depth >= MAX_RECURSION_DEPTH

\* Templar._internal_render is entered.  The depth is raised before the
\* `try`: the call that raises ActionRenderRecursionError leaves it raised,
\* every call below it lowers it in its `finally`, and Templar.render turns
\* the exception into ActionRenderError(e).
enter(t, data) ==
  IF overflow(t.depth + 1)
    THEN [t EXCEPT !.pc = "idle", !.depth = t.depth + 1 - Len(t.frames),
                   !.frames = <<>>, !.calls = @ + 1,
                   !.raised = "ActionRenderRecursionError",
                   !.error = "ActionRenderError"]
    ELSE [t EXCEPT !.depth = @ + 1, !.calls = @ + 1,
                   !.frames = Append(@, [lexemes |-> data, i |-> 1])]

\* The call of _internal_render that is executing, and the lexeme it is at.
Frame == templar.frames[Len(templar.frames)]
AtLexeme ==
  /\ templar.pc = "rendering" /\ templar.frames # <<>>
  /\ Frame.i <= Len(Frame.lexemes)
Lexeme == Frame.lexemes[Frame.i]

\* Templar.render("@{context.<key>}")
render_context_key(key) ==
  /\ templar.pc = "idle" /\ templar.renders < MaxRenders
  /\ templar' = enter([templar EXCEPT !.pc = "rendering", !.renders = @ + 1, !.key = key,
                                      !.calls = 0, !.raised = "none", !.error = "none"],
                      <<key>>)
  /\ UNCHANGED <<actionVars, runVars, dispVars, mainVars, stratVars, waiting, ready, cur, batch>>
  /\ UNCHANGED <<strategy, net, disabled, ios, graph, built, message, scan, template, rendered,
                 context_map, moreVars>>

\* `str(self._eval(expression=lexeme_value))` of a deferred template: the
\* nested _internal_render call
internal_render ==
  /\ AtLexeme /\ Lexeme \in ContextKeys /\ LazyProxy(Lexeme)
  /\ templar' = enter(templar, context_map[Lexeme])
  /\ UNCHANGED <<actionVars, runVars, dispVars, mainVars, stratVars, waiting, ready, cur, batch>>
  /\ UNCHANGED <<strategy, net, disabled, ios, graph, built, message, scan, template, rendered,
                 context_map, moreVars>>

\* `chunks.append(lexeme_value)` of a text, or of an expression that
\* evaluates without rendering
append ==
  /\ AtLexeme /\ ~(Lexeme \in ContextKeys /\ LazyProxy(Lexeme))
  /\ templar' = [templar EXCEPT !.frames[Len(templar.frames)].i = @ + 1]
  /\ UNCHANGED <<actionVars, runVars, dispVars, mainVars, stratVars, waiting, ready, cur, batch>>
  /\ UNCHANGED <<strategy, net, disabled, ios, graph, built, message, scan, template, rendered,
                 context_map, moreVars>>

\* `return RenderedStringTemplate("".join(chunks))` and `finally:
\* self._depth -= 1`: the caller appends the chunk, Templar.render returns.
return ==
  /\ templar.pc = "rendering" /\ templar.frames # <<>>
  /\ Frame.i > Len(Frame.lexemes)
  /\ LET callers == SubSeq(templar.frames, 1, Len(templar.frames) - 1)
     IN templar' =
          [templar EXCEPT !.depth = @ - 1,
                          !.pc = IF callers = <<>> THEN "idle" ELSE @,
                          !.frames = IF callers = <<>> THEN <<>>
                                     ELSE [callers EXCEPT ![Len(callers)].i = @ + 1]]
  /\ UNCHANGED <<actionVars, runVars, dispVars, mainVars, stratVars, waiting, ready, cur, batch>>
  /\ UNCHANGED <<strategy, net, disabled, ios, graph, built, message, scan, template, rendered,
                 context_map, moreVars>>

TemplarInit ==
  /\ RunnerInit /\ strategy = "loose" /\ net = StrictChain
  /\ NetIdle /\ ScanIdle /\ LexIdle /\ MoreIdle
  /\ context_map \in [ContextKeys -> ContextTemplates]
  /\ templar = [NoTemplar EXCEPT !.pc = "idle"]

TemplarNext ==
  \/ \E key \in ContextKeys : render_context_key(key)
  \/ internal_render
  \/ append
  \/ return

TemplarSpec == TemplarInit /\ [][TemplarNext]_vars

----
\* An outcomes expression read by Templar: outcomes.<action_name>.<key>.

UnknownAction == "Unknown action"
ActionNames == Names \cup {UnknownAction}

\* what an action has yielded: its keys and their values
OutcomeMaps == UNION {[keys -> Values] : keys \in SUBSET Keys}
Lookups ==
  [pc : {"ready"}, strict : BOOLEAN, outcomes_map : [Names -> OutcomeMaps],
   action_name : ActionNames, key : Keys]

\* `C.STRICT_OUTCOMES_RENDERING`
\* (STRICT_OUTCOMES_RENDERING_Off: a variant that never is strict)
STRICT_OUTCOMES_RENDERING_Off(scope) == FALSE
STRICT_OUTCOMES_RENDERING(scope) == scope.strict

LOOSE_OUTCOMES_RENDERING_DEFAULT_VALUE == ""

\* Templar._string_template_process_expression, part_type "outcomes":
\* the value, or the ActionRenderError of Templar._error
outcomes_expression(scope) ==
  IF scope.action_name \notin DOMAIN scope.outcomes_map
    THEN [error |-> "ActionRenderError", message |-> "Action not found", string |-> ""]
  ELSE IF scope.key \notin DOMAIN scope.outcomes_map[scope.action_name]
    THEN IF STRICT_OUTCOMES_RENDERING(scope)
           THEN [error |-> "ActionRenderError", message |-> "outcome key not found",
                 string |-> ""]
           ELSE [error |-> "none", message |-> "",
                 string |-> LOOSE_OUTCOMES_RENDERING_DEFAULT_VALUE]
  ELSE [error |-> "none", message |-> "",
        string |-> scope.outcomes_map[scope.action_name][scope.key]]

process_expression ==
  /\ lookup.pc = "ready"
  /\ lookup' = [pc |-> "done", scope |-> lookup, outcome |-> outcomes_expression(lookup)]
  /\ UNCHANGED <<actionVars, runVars, dispVars, mainVars, stratVars, waiting, ready, cur, batch>>
  /\ UNCHANGED <<strategy, net, disabled, ios, baseVars, plex>>

LookupInit ==
  /\ RunnerInit /\ strategy = "loose" /\ net = StrictChain
  /\ BaseIdle /\ PlexIdle
  /\ lookup \in Lookups

LookupNext == process_expression

LookupSpec == LookupInit /\ [][LookupNext]_vars

----
\* AsyncMultiplexor (streams/multiplexor.py): the sources attached to it, the
\* reader task of each, the queue, the getter task of __anext__, a consumer
\* that iterates it inside `async with`, and a task that calls stop().
\* Every action is the run of one task between two of its awaits.

Sources == {"s1", "s2"}
MaxSpan == 2

\* counter(span) of tests/streams/test_multiplexor.py: a source of span items
Spans == [Sources -> 0..MaxSpan]

\* AsyncMultiplexor.__init__
NewPlex(spans) ==
  [pc |-> "plex", span |-> spans,
   reader |-> [s \in Sources |-> "none"],   \* the reader task of a source
   put |-> [s \in Sources |-> 0],           \* how many items it has read
   reader_tasks |-> {},
   queue |-> <<>>,
   getter |-> "none",                       \* the task of self._queue.get()
   got |-> <<>>,                            \* the result of that task
   running |-> FALSE,
   consumer |-> "new",
   yielded |-> <<>>,                        \* what the consumer was given, in order
   stopped |-> FALSE,                       \* stop() has been called
   late |-> 0]                              \* items given to the consumer after stop()

PlexUnchanged ==
  /\ UNCHANGED <<actionVars, runVars, dispVars, mainVars, stratVars, waiting, ready, cur, batch>>
  /\ UNCHANGED <<strategy, net, disabled, ios, baseVars, lookup>>

\* AsyncMultiplexor.__aenter__
aenter ==
  /\ plex.consumer = "new"
  /\ plex' = [plex EXCEPT !.running = TRUE, !.consumer = "entered"]
  /\ PlexUnchanged

\* AsyncMultiplexor.attach
attach(s) ==
  /\ plex.consumer \in {"entered", "awaiting"}
  /\ plex.reader[s] = "none"
  /\ plex' = [plex EXCEPT !.reader[s] = "reading",
                          !.reader_tasks = @ \cup {s}]
  /\ PlexUnchanged

\* asyncio.Queue.put of an unbounded queue: the item is queued at once, and a
\* getter that waits for an item is woken up
put(p, item) ==
  [p EXCEPT !.queue = Append(@, item),
            !.getter = IF @ = "waiting" THEN "woken" ELSE @]

\* the `finally` of AsyncMultiplexor._source_reader
reader_finally(p, s) ==
  [p EXCEPT !.reader[s] = "done", !.reader_tasks = @ \ {s}]

\* AsyncMultiplexor._source_reader: the source gives its next item, which is
\* put into the queue; the source that has given its last item is exhausted
source_reader(s) ==
  /\ plex.reader[s] = "reading"
  /\ LET n == plex.put[s] + 1
         p == put([plex EXCEPT !.put[s] = n], <<s, n>>)
     IN  plex' = IF plex.put[s] >= plex.span[s] THEN reader_finally(plex, s)
                 ELSE IF n = plex.span[s] THEN reader_finally(p, s)
                 ELSE p
  /\ PlexUnchanged

\* AsyncMultiplexor.__anext__ up to its await
anext(p) ==
  IF ~p.running THEN [p EXCEPT !.consumer = "stopped"]
  ELSE [p EXCEPT !.getter = "created", !.consumer = "awaiting"]

\* the consumer's `async for` begins
aiter ==
  /\ plex.consumer = "entered"
  /\ plex' = anext(plex)
  /\ PlexUnchanged

\* asyncio.Queue.get, run by the getter task: it takes the first item of the
\* queue, or waits for one
get ==
  /\ plex.getter \in {"created", "woken"}
  /\ plex' = IF plex.queue = <<>> THEN [plex EXCEPT !.getter = "waiting"]
             ELSE [plex EXCEPT !.getter = "done", !.got = <<Head(plex.queue)>>,
                               !.queue = Tail(@)]
  /\ PlexUnchanged

\* AsyncMultiplexor.__anext__ from its await on: the consumer is given the
\* item of the getter and asks for the next one, or the getter was cancelled
\* and the iteration stops
resume ==
  /\ plex.consumer = "awaiting"
  /\ plex.getter \in {"done", "cancelled"}
  /\ plex' = IF plex.getter = "cancelled"
               THEN [plex EXCEPT !.getter = "none", !.consumer = "stopped"]
               ELSE anext([plex EXCEPT !.getter = "none", !.got = <<>>,
                                       !.yielded = Append(@, plex.got[1]),
                                       !.late = IF plex.stopped THEN @ + 1 ELSE @])
  /\ PlexUnchanged

\* AsyncMultiplexor.stop: Task.cancel does nothing to a task that is done
\* (stopReadersOnly: a variant that leaves the getter alone)
stopReadersOnly(p) ==
  [p EXCEPT !.reader = [s \in Sources |-> IF p.reader[s] = "reading" THEN "cancelled"
                                          ELSE p.reader[s]],
            !.reader_tasks = {},
            !.running = FALSE]
stop(p) ==
  [p EXCEPT !.reader = [s \in Sources |-> IF p.reader[s] = "reading" THEN "cancelled"
                                          ELSE p.reader[s]],
            !.reader_tasks = {},
            !.getter = IF @ \in {"created", "waiting", "woken"} THEN "cancelled" ELSE @,
            !.running = FALSE]

\* breaker() of tests/streams/test_multiplexor.py: stop() is called once every
\* source is exhausted and the queue is empty
breaker ==
  /\ plex.consumer \in {"entered", "awaiting"}
  /\ ~plex.stopped
  /\ \A s \in Sources : plex.reader[s] = "done"
  /\ plex.queue = <<>>
  /\ plex' = [stop(plex) EXCEPT !.stopped = TRUE]
  /\ PlexUnchanged

\* AsyncMultiplexor.__aexit__
aexit ==
  /\ plex.consumer = "stopped"
  /\ plex' = [stop(plex) EXCEPT !.stopped = TRUE, !.consumer = "exited"]
  /\ PlexUnchanged

PlexInit ==
  /\ RunnerInit /\ strategy = "loose" /\ net = StrictChain
  /\ BaseIdle /\ LookupIdle
  /\ \E spans \in Spans : plex = NewPlex(spans)

PlexNext ==
  \/ aenter
  \/ \E s \in Sources : attach(s)
  \/ \E s \in Sources : source_reader(s)
  \/ aiter
  \/ get
  \/ resume
  \/ breaker
  \/ aexit

PlexSpec == PlexInit /\ [][PlexNext]_vars

----
\* Properties

Terminal == {"SUCCESS", "WARNING", "FAILURE", "SKIPPED", "OMITTED"}

\* Nothing is left to run: no callback is ready and no handler is in I/O.
Quiescent == cur = "none" /\ ready = <<>> /\ \A a \in Names : running_task[a] # "io"

Yielded == {yieldedSeq[i] : i \in 1..Len(yieldedSeq)}

\* C1: under the loose and strict strategies an action is yielded by the
\* iterator only after every one of its ancestors is done.
C1_DependencyHonesty ==
  Loose => \A a \in Yielded : \A b \in net.ancestors[a] : done(b)

C1_Witness ==
  /\ Loose
  /\ \E a \in Yielded : \E b \in net.ancestors[a] : running_task[b] \in Over /\ running_task[a] \in Over

\* C2: under the loose and strict strategies the iterator does not
\* deadlock: when every yielded action has terminated and nothing is left
\* to run, run_async is not suspended inside the strategy's __anext__.
C2_NoDeadlock ==
  Loose => ~(/\ mainPc = "loose_wait"
             /\ Quiescent
             /\ \A a \in Yielded : done(a) /\ running_task[a] \in Over \cup {"none"})

First(w) == CHOOSE a \in Names : w.ancestors[a] = {}
ChainCase ==
  /\ strategy = "loose"
  /\ net \in {StrictChain, BackwardChain}
  /\ running_task[First(net)] \in {"exc", "runerr", "skip"}
  /\ status[First(net)] \in {"FAILURE", "SKIPPED"}

Cascade ==
  /\ yieldedSeq = <<First(net)>>
  /\ \A b \in Names \ {First(net)} :
       /\ running_task[b] = "none" /\ phase[b] = 0
       /\ Quiescent => status[b] = "SKIPPED"

\* C4 as stated: in a linear chain whose edges are all strict, when the
\* handler of the first action raises, fails or skips, the loose strategy
\* yields that action only; no other handler ever runs, and once nothing
\* is left to run every other action is SKIPPED.
C4_CascadingSkipAll == ChainCase => Cascade

\* C4, amended: the same, for a chain none of whose actions was left out
\* of the plan (disabled) before the run.
C4_CascadingSkip == (ChainCase /\ disabled = {}) => Cascade

C4_Witness ==
  /\ ChainCase /\ Quiescent /\ disabled = {}
  /\ \A b \in Names \ {First(net)} : status[b] = "SKIPPED" /\ b \in strategySkipped

\* C5: once the status of an action is terminal it never changes again.
C5_TerminalIsFinal ==
  [][\A a \in Names : status[a] \in Terminal => status'[a] = status[a]]_vars

\* C6: run_async ends with ExecutionFailed exactly when the final status
\* of at least one action is FAILURE.
C6_ExecutionFailedIffFailure ==
  (mainPc = "done" /\ result \in {"ok", "ExecutionFailed"}) =>
     (result = "ExecutionFailed" <=> \E a \in Names : status[a] = "FAILURE")

\* C7: under every strategy an action (that was not left out of the plan)
\* whose rendering failed is in FAILURE and the body of its handler is
\* never executed.
C7_RenderErrorStopsAction ==
  \A a \in Names :
     (renderRes[a] = "fail" /\ a \notin disabled) => (status[a] = "FAILURE" /\ phase[a] = 0)

\* The status the handler's own ending gives to an action.
EndStatus(res) == IF res = "ok" THEN "SUCCESS" ELSE IF res = "skip" THEN "SKIPPED" ELSE "FAILURE"

\* An action of the plan has its own outcome when, being rendered, it ran
\* to the status of its own handler and, not being rendered, it was set to
\* SKIPPED by the strategy for an ancestor in FAILURE or SKIPPED behind a
\* strict edge (any edge under the strict strategy).
OwnOutcome(a) ==
  IF a \in disabled \/ renderRes[a] = "fail" THEN TRUE
  ELSE IF renderRes[a] = "ok"
    THEN running_task[a] \in Over /\ status[a] = EndStatus(running_task[a])
    ELSE /\ a \in strategySkipped /\ status[a] = "SKIPPED"
         /\ \E anc \in net.ancestors[a] :
              /\ status[anc] \in {"FAILURE", "SKIPPED"}
              /\ (anc \in net.strict[a] \/ strategy = "strict")

\* C8, for the loose and strict strategies: the render error or handler
\* failure of one action changes the final status of no other action,
\* except that its descendants through strict edges (any edge under the
\* strict strategy) are SKIPPED: once nothing is left to run, every other
\* action has run to its own outcome.
C8_FailureIsolation ==
  (Loose /\ Quiescent) => \A a \in Names : OwnOutcome(a)

\* The runner renders the arguments of a in this step.
RenderStep(a) == renderRes[a] = "none" /\ renderRes'[a] # "none"

\* b will yield no more: its handler is over, or it is done without one.
Settled(b) == running_task[b] \in Over \/ (running_task[b] = "none" /\ done(b))

\* The outcomes map holds the final outcomes of every ancestor of a.
Visible(a) == \A b \in net.ancestors[a] : Settled(b) /\ OutcomesGet(b) = yielded_keys[b]

Final(b) == Settled(b) => yielded_keys'[b] = yielded_keys[b]

\* C9 as stated, for every strategy: when the runner renders a yielded
\* action, the outcomes map holds the final outcomes of each ancestor.
C9_OutcomeVisibilityAll ==
  [][\A a \in Names : Final(a) /\ (RenderStep(a) => Visible(a))]_vars

\* C9, amended: the same under the loose and strict strategies.
C9_OutcomeVisibility ==
  [][Loose => \A a \in Names : Final(a) /\ (RenderStep(a) => Visible(a))]_vars

C9_Witness ==
  /\ Loose
  /\ \E a \in Names : \E b \in net.ancestors[a] :
       /\ renderRes[a] = "ok" /\ running_task[a] \in Over
       /\ b \in outcomes /\ HasKey(yielded_keys[b], Key) /\ yielded_keys[b][Key] > 1

IsPrefix(s, t) == Len(s) <= Len(t) /\ s = SubSeq(t, 1, Len(s))

\* C10: what read_events has yielded to the display is at any time a
\* prefix of what the action has emitted, and once nothing is left to run
\* the reader of every yielded action that is done has terminated, having
\* yielded every emitted event.
C10_EventCompleteness ==
  /\ \A a \in Names : IsPrefix(displayed[a], Emitted(a))
  /\ Quiescent => \A a \in Yielded : done(a) => dispPc[a] = "done" /\ displayed[a] = Emitted(a)

\* An awaiter of a has returned from (or raised out of) ActionBase._await
\* after the handler of a was over.
Awaited(a) ==
  /\ running_task[a] \in Over
  /\ (runPc[a] = "done" /\ renderRes[a] = "ok") \/ Quiescent

\* C11: once an action has been awaited, its status is the one of its
\* handler's outcome (return: SUCCESS; skip(): SKIPPED; fail() or any other
\* exception: FAILURE), its future is completed and done() is true.
C11_AwaitMapsOutcome ==
  \A a \in Names :
     Awaited(a) => /\ status[a] = EndStatus(running_task[a])
                   /\ fut[a] # "pending"
                   /\ done(a)

C11_Witness ==
  /\ Quiescent
  /\ \E a, b, c \in Names :
       /\ running_task[a] = "ok" /\ status[a] = "SUCCESS"
       /\ running_task[b] = "skip" /\ status[b] = "SKIPPED" /\ fut[b] = "result"
       /\ running_task[c] \in {"exc", "runerr"} /\ status[c] = "FAILURE"

\* The actions declared with `severity: low` in the workflow.
LowSeverity == {"a1"}

\* The handler of a failed, or the rendering of a failed.
Failing(a) == running_task[a] \in {"runerr", "exc"} \/ renderRes[a] = "fail"

\* C12: an action of low severity whose handler calls fail() is in WARNING
\* once it has been awaited, and a finished run whose failing actions all
\* have low severity has not raised ExecutionFailed.
C12_LowSeverityWarning ==
  /\ \A a \in LowSeverity :
        (running_task[a] = "runerr" /\ Awaited(a)) => status[a] = "WARNING"
  /\ (mainPc = "done" /\ \A a \in Names : Failing(a) => a \in LowSeverity)
        => result # "ExecutionFailed"

\* C13: disable() takes a PENDING action to OMITTED and completes its
\* future; in any other status it raises and leaves the status as it was:
\* the step of a handler that calls disable() on itself does not change
\* the status, the action ends in FAILURE once awaited, and no action
\* other than those disabled before the run is ever OMITTED.
C13_DisableOnlyFromPending ==
  [][\A a \in Names :
       /\ (a \notin disabled /\ a \in disabled') =>
             status[a] = "PENDING" /\ status'[a] = "OMITTED" /\ fut'[a] = "result"
       /\ (running_task[a] \notin Over /\ running_task'[a] = "exc") => status'[a] = status[a]
       /\ (running_task'[a] = "exc" /\ runPc'[a] = "done" /\ renderRes'[a] = "ok") =>
             status'[a] = "FAILURE"
       /\ status'[a] = "OMITTED" => a \in disabled' /\ running_task'[a] = "none"]_vars

C13_Witness ==
  /\ \E a \in disabled : status[a] = "OMITTED" /\ fut[a] = "result" /\ runPc[a] = "done"
  /\ \E b \in Names : running_task[b] = "exc" /\ runPc[b] = "done" /\ status[b] = "FAILURE"

\* C14: under every strategy the runner renders the arguments of an
\* action (one that was not disabled before the run) while the status of
\* that action is still PENDING.
C14_RenderingPrecedesStart ==
  [][\A a \in Names \ disabled : RenderStep(a) => status[a] = "PENDING"]_vars

\* What a run schedules and reports.
Scheduled == <<background_tasks, yieldedSeq, status, running_task, runPc, dispPc, finished, result>>

\* C15: a Runner runs at most once: the first run_async goes on to the
\* strategy, and a call made after that run is over, whether it ended
\* normally or with ExecutionFailed, raises RuntimeError, schedules
\* nothing, and leaves the Runner where it is for good.
C15_RunsAtMostOnce ==
  [][/\ (mainPc = "start" /\ mainPc' # "start") => mainPc' = "anext" /\ started'
     /\ (mainPc = "done" /\ mainPc' # "done") =>
           /\ result # "none"
           /\ mainPc' = "raised"
           /\ UNCHANGED Scheduled
     /\ mainPc = "raised" => UNCHANGED <<mainPc, Scheduled>>]_vars

C15_Witness ==
  /\ mainPc = "raised" /\ result = "ExecutionFailed"
  /\ \E a \in Names : status[a] = "FAILURE"
  /\ \E a \in Names : status[a] = "SUCCESS"

\* C16: an error raised by a display callback is not propagated: once
\* on_finish has been called, run_async ends as it does with a display
\* that does not raise, with ExecutionFailed if an action failed and
\* normally otherwise.
C16_DisplayErrorsContained ==
  finished > 0 => result = (IF had_failed_actions THEN "ExecutionFailed" ELSE "ok")

\* C17: on_finish is called once in a run that reaches its end, and not
\* before the strategy's iterator has ended, every yielded action is done
\* with no handler left running, and every event emitted by a yielded action has
\* been forwarded to the display.
C17_OnFinishLast ==
  /\ finished <= 1
  /\ mainPc \in {"done", "raised"} => finished = 1
  /\ finished = 1 =>
       /\ mainPc \in {"done", "raised"}
       /\ \A a \in Yielded :
            /\ done(a)
            /\ running_task[a] \notin {"ready", "io"}
            /\ displayed[a] = Emitted(a)

\* C18: under the sequential strategies at most one action is RUNNING at
\* any moment, and an action is yielded only after the action yielded
\* before it is done.
C18_OneAtATime ==
  Sequential =>
    /\ Cardinality({a \in Names : status[a] = "RUNNING"}) <= 1
    /\ \A k \in 1..(Len(yieldedSeq) - 1) : done(yieldedSeq[k])

C18_Witness ==
  /\ Sequential
  /\ Len(yieldedSeq) = 3
  /\ status[yieldedSeq[3]] = "RUNNING"
  /\ \A k \in 1..2 : running_task[yieldedSeq[k]] \in Over

\* The action yielded last, and the step that yields one more action.
LastYielded == yieldedSeq[Len(yieldedSeq)]
YieldStep == Len(yieldedSeq') > Len(yieldedSeq)

\* Under strict-sequential, once a yielded action is in one of the
\* statuses `bad`, no further action is yielded, and when nothing is left
\* to run every action that was not yielded is SKIPPED.
SkipsRestOn(bad) ==
  strategy = "strict-sequential" =>
    /\ YieldStep => \A a \in Yielded : status[a] \notin bad
    /\ (Quiescent' /\ \E a \in Yielded' : status'[a] \in bad) =>
          \A b \in Names \ Yielded' : status'[b] = "SKIPPED"

\* C19 as stated: strict-sequential skips all the remaining actions as
\* soon as a yielded action finishes in FAILURE or in SKIPPED.
C19_SkipsRestOnNonSuccess == [][SkipsRestOn({"FAILURE", "SKIPPED"})]_vars

\* C20: under strict-sequential an action is yielded only after all of
\* its ancestors have been yielded and are done, whatever the order in
\* which the workflow declares its actions.
C20_TopologicalOrder ==
  strategy = "strict-sequential" =>
    \A a \in Yielded : \A b \in net.ancestors[a] : b \in Yielded /\ done(b)

\* C21: the free strategy yields every action of the workflow once, with
\* no wait in between (no task has run when the iteration ends), whatever
\* the dependencies, and skips nothing: an action is SKIPPED only by its
\* own handler.
C21_FreeYieldsAll ==
  strategy = "free" =>
    /\ \A i, j \in 1..Len(yieldedSeq) : yieldedSeq[i] = yieldedSeq[j] => i = j
    /\ mainPc \in {"start", "anext"} =>
          \A a \in Names : running_task[a] = "none" /\ runPc[a] \in {"none", "ready"}
    /\ mainPc \notin {"start", "anext"} => Yielded = Names
    /\ strategySkipped = {}
    /\ \A a \in Names : status[a] = "SKIPPED" => running_task[a] = "skip"

C21_Witness ==
  /\ strategy = "free" /\ Quiescent /\ mainPc = "done"
  /\ \E a \in Names : \E b \in net.ancestors[a] :
       status[b] \in {"FAILURE", "SKIPPED"} /\ status[a] = "SUCCESS"

Built == built.error = "none"

\* The actions from which a is reached along ancestor edges of `anc`, in
\* at most n steps.
RECURSIVE Above(_, _, _)
Above(anc, a, n) ==
  IF n = 0 THEN {}
  ELSE LET up == anc[a] \cap Names
       IN up \cup UNION {Above(anc, b, n - 1) : b \in up}

Acyclic(anc) == \A a \in Names : a \notin Above(anc, a, Cardinality(Names))

Max(S) == CHOOSE x \in S : \A y \in S : y <= x

\* C22: after a successful build of an acyclic graph every entrypoint has tier 0 and every
\* other action has the tier 1 + max of the tiers of its ancestors, so
\* the tier of an action is above the tier of each of its ancestors.
C22_Tiering ==
  (Built /\ Acyclic(built.ancestors)) =>
    \A a \in Names :
       /\ a \in built.entrypoints => built.tier[a] = 0
       /\ a \notin built.entrypoints =>
            /\ built.tier[a] = 1 + Max({built.tier[b] : b \in built.ancestors[a]})
            /\ \A b \in built.ancestors[a] : built.tier[a] > built.tier[b]

\* C23: a build succeeds only for acyclic graphs: a graph with a cycle,
\* also one that is reachable from an entrypoint, gives IntegrityError.
C23_AcyclicityEnforced ==
  Built => Acyclic(built.ancestors)

Rank(n) == CHOOSE i \in 1..Len(Alphabet) : Alphabet[i] = n

\* The names in seq are those of S, in increasing order.
SortedListing(seq, S) ==
  /\ {seq[i] : i \in 1..Len(seq)} = S
  /\ \A i, j \in 1..Len(seq) : i < j => Rank(seq[i]) < Rank(seq[j])

\* C24: when some action depends, not externally, on a name that is no
\* action, the build fails with IntegrityError listing those names sorted;
\* otherwise the dependencies on absent names (all external) are dropped
\* from the ancestors and the dependencies on actions are all kept.
C24_MissingDependencies ==
  built.error # "unbuilt" =>
    LET missing == {b \in Absent : \E a \in Names : graph[a][b] = "dep"}
    IN /\ missing # {} =>
            /\ built.error = "IntegrityError"
            /\ built.message = "Missing actions among dependencies"
            /\ SortedListing(built.names, missing)
       /\ missing = {} => built.message # "Missing actions among dependencies"
       /\ Built => \A a \in Names : built.ancestors[a] = {b \in Names : graph[a][b] # "no"}

C24_Witness ==
  /\ built.error = "IntegrityError" /\ built.names = <<"m1", "m2">>
  /\ \E a \in Names : graph[a]["m1"] = "ext"

C24_WitnessPruned ==
  /\ Built
  /\ \E a \in Names : graph[a]["m1"] = "ext" /\ graph[a]["a1"] = "ext" /\ built.ancestors[a] = {"a1"}

\* The actions reached from the entrypoints of `anc` along descendant
\* edges: those with no ancestor, or with an ancestor already reached.
RECURSIVE ReachedFrom(_, _, _)
ReachedFrom(anc, R, n) ==
  IF n = 0 THEN R
  ELSE ReachedFrom(anc, R \cup {a \in Names : anc[a] \cap R # {}}, n - 1)

Reachable(anc) == ReachedFrom(anc, {a \in Names : anc[a] = {}}, Cardinality(Names))

\* The ancestors declared in the graph, the external dependencies on
\* absent names left out.
Declared == [a \in Names |-> {b \in DepNames : graph[a][b] = "dep" \/ (graph[a][b] = "ext" /\ b \in Names)}]

\* C25: the build fails with IntegrityError when no action is left without
\* ancestors, and when some action is not reachable from an entrypoint; a
\* workflow that was built has an entrypoint and every action reachable.
C25_Reachability ==
  built.error # "unbuilt" =>
    /\ (\A a \in Names : Declared[a] # {}) => built.error = "IntegrityError"
    /\ Reachable(Declared) # Names => built.error = "IntegrityError"
    /\ Built => /\ built.entrypoints # {}
                /\ \A a \in built.entrypoints : built.ancestors[a] = {}
                /\ Reachable(built.ancestors) = Names

C25_Witness ==
  /\ built.error = "IntegrityError" /\ built.message = "Unreachable actions found"
  /\ built.names = <<"a2", "a3">>
  /\ Declared["a1"] = {}

EmitTypeOK ==
  /\ scan.pc \in {"ready", "done"}
  /\ \A i \in 1..Len(scan.events) : scan.events[i].stderr \in BOOLEAN

\* The line carries the well-formed sentinel of key k and value v.
Yields(line, k, v) == line.end = Sentinel(b64encode(k), b64encode(v))
WellFormed(line) == \E k \in Keys, v \in Values : Yields(line, k, v)

EmitDone == scan.pc = "done" /\ ~message.stderr

\* C26: a stdout line `<prefix><sentinel of k and v>` makes outcomes[k]
\* equal to v, whatever k held before (the last such line of a message
\* wins); no forwarded event carries the sentinel, and when the message
\* is that line alone what is forwarded is the prefix and nothing else.
C26_SentinelExtraction ==
  EmitDone =>
    LET lines == message.lines
    IN /\ \A i \in 1..Len(lines) : \A k \in Keys, v \in Values :
            (Yields(lines[i], k, v) /\ \A j \in (i + 1)..Len(lines), w \in Values : ~Yields(lines[j], k, w))
              => \A kv \in scan.outcomes : kv[1] = k => kv[2] = v
       /\ \A i \in 1..Len(lines) : \A k \in Keys, v \in Values :
            Yields(lines[i], k, v) => \E kv \in scan.outcomes : kv[1] = k
       /\ \A e \in 1..Len(scan.events) : \A t \in 1..Len(scan.events[e].text) :
            scan.events[e].text[t] \notin {Sentinel(b64encode(k), b64encode(v)) : k \in Keys, v \in Values}
       /\ (Len(lines) = 1 /\ WellFormed(lines[1])) =>
            scan.events = IF lines[1].prefix = <<>> THEN <<>>
                          ELSE <<[stderr |-> FALSE, text |-> lines[1].prefix]>>

C26_Witness ==
  /\ EmitDone
  /\ Len(message.lines) = 1
  /\ message.lines[1].prefix # <<>>
  /\ Yields(message.lines[1], "k1", "v1")
  /\ scan.outcomes = {<<"k1", "v1">>}
  /\ scan.events = <<[stderr |-> FALSE, text |-> message.lines[1].prefix]>>

\* The line ends with "]##" and its sentinel cannot be decoded.
Malformed(line) == line.end # Plain /\ ~WellFormed(line)

EmitStep == scan.pc = "ready" /\ scan'.pc = "done" /\ ~message.stderr

\* C27: a stdout line that ends with "]##" and whose sentinel cannot be
\* decoded (no match of the pattern, or a key or a value that is no
\* base64) yields no outcome and is forwarded as it is.
C27_MalformedVerbatim ==
  [][(EmitStep /\ Len(message.lines) = 1 /\ Malformed(message.lines[1])) =>
        /\ scan'.outcomes = scan.outcomes
        /\ scan'.events = <<[stderr |-> FALSE, text |-> LineText(message.lines[1])]>>]_vars

\* C28: a Stderr message is not scanned: it is forwarded whole and as it
\* is, also when a line of it carries a well-formed sentinel, and the
\* outcomes of the action stay as they are.
C28_StderrNotScanned ==
  [][(scan.pc = "ready" /\ scan'.pc = "done" /\ message.stderr) =>
        /\ scan'.outcomes = scan.outcomes
        /\ scan'.events = <<[stderr |-> TRUE, text |-> MessageText(message.lines)]>>]_vars

C28_Witness ==
  /\ scan.pc = "done" /\ message.stderr
  /\ Len(message.lines) = 2
  /\ Yields(message.lines[1], "k1", "v1") /\ message.lines[1].prefix # <<>>
  /\ scan.outcomes = {<<"k1", "v2">>}
  /\ Len(scan.events) = 1 /\ Len(scan.events[1].text) = 4

\* The render call has returned or raised.
Rendered == rendered # NotRendered

\* The one string whose at-signs, doubled, can give the template:
\* every pair of at-signs becomes one.
RECURSIVE halve(_)
halve(str) ==
  IF str = <<>> THEN <<>>
  ELSE IF Head(str) = "@" /\ Len(str) >= 2 /\ str[2] = "@"
    THEN <<"@">> \o halve(Tail(Tail(str)))
  ELSE <<Head(str)>> \o halve(Tail(str))

\* C29 (as stated): for any string s, rendering s.replace("@", "@@") gives s.
C29_EscapeLaw ==
  LET str == halve(template)
  IN (Rendered /\ template = replace(str)) => rendered = [error |-> "none", string |-> str]

\* C29 (amended): for any string s, rendering s.replace("@", "@@") gives that
\* doubled string unchanged: no expression is evaluated and the at-signs stay
\* doubled, so the result is s only when s has no at-sign.
C29_EscapeKeepsDoubling ==
  LET str == halve(template)
  IN (Rendered /\ template = replace(str))
       => /\ rendered = [error |-> "none", string |-> replace(str)]
          /\ (rendered.string = str <=> \A i \in 1..Len(str) : str[i] # "@")

\* The escaped form of @{o} has been rendered.
C29_Witness == Rendered /\ template = replace(<<"@", "{", "o", "}">>)

\* The context keys the template of a key refers to, and the keys reached
\* from a set of keys through such references.
Refs(key) == {context_map[key][i] : i \in 1..Len(context_map[key])} \cap ContextKeys
RECURSIVE ReachedKeys(_)
ReachedKeys(keys) ==
  LET more == keys \cup UNION {Refs(key) : key \in keys}
  IN IF more = keys THEN keys ELSE ReachedKeys(more)

\* The template of the key refers back to the key, directly or through
\* other context keys.
SelfReferential(key) == key \in ReachedKeys(Refs(key))

\* A render call of a context key is over.
RenderOver == templar.pc = "idle" /\ templar.renders > 0

\* The most _internal_render calls one render can make: a call below the
\* maximum depth makes one call per lexeme at most.
RECURSIVE CallTree(_)
CallTree(depth) ==
  IF depth >= MAX_RECURSION_DEPTH THEN 1 ELSE 1 + MaxLexemes * CallTree(depth + 1)

MeetsCycle(key) == \E k \in ReachedKeys({key}) : SelfReferential(k)

\* C31: a render gives what the template and the scope determine, whatever
\* renders came before (an error exactly when the key leads to a reference
\* cycle), and leaves the depth bookkeeping of the Templar as it was before
\* the call.
C31_RenderDeterminism ==
  RenderOver => /\ templar.depth = 0
                /\ (templar.error = "none" <=> ~MeetsCycle(templar.key))

\* An outcomes expression has been read.
LookedUp == lookup.pc = "done"

C33_InteractiveOmission ==
  /\ \A a \in disabled : status[a] = "OMITTED" /\ running_task[a] = "none"
  /\ (/\ mainPc = "done" /\ disabled # {}
      /\ \A a \in Names \ disabled : status[a] = "SUCCESS")
       => result # "ExecutionFailed"

\* The iteration over the strategy has ended.
IterationOver == mainPc \in {"fin", "fin_wait", "done", "raised"}

\* C34: the loose and strict strategies end the iteration only when no
\* yielded action is still unfinished and every action of the workflow has
\* been yielded or skipped.
C34_StopCondition ==
  (Loose /\ IterationOver) =>
    /\ \A a \in active_actions_map : done(a)
    /\ \A a \in Names : a \in Yielded \/ a \in strategySkipped

\* The not-yet-yielded actions whose ancestors are all done.
ReadyActions == {a \in blockerKeys : \A b \in net.ancestors[a] : done(b)}

\* C35: the loose and strict strategies never are suspended in the wait for
\* an active action while a not-yet-yielded action has all of its ancestors
\* done: every ready action is yielded or skipped before the strategy waits
\* (the step that suspends the strategy leaves no ready action behind).
C35_NoStarvation ==
  [][(Loose /\ mainPc # "loose_wait" /\ mainPc' = "loose_wait") => ReadyActions' = {}]_vars

\* The strategy waits while an action is still blocked.
C35_Witness ==
  /\ Loose /\ mainPc = "loose_wait" /\ MainTask \in waiting
  /\ blockerKeys # {} /\ Len(yieldedSeq) >= 2

\* C36: in every state the scheduler or the runner can observe, done() is
\* true exactly when the status of the action is SUCCESS, FAILURE, SKIPPED
\* or the status of an action left out of the plan: never while PENDING or
\* RUNNING, always in a terminal status.
C36_DoneIffTerminal ==
  \A a \in Names : done(a) <=> status[a] \in {"SUCCESS", "FAILURE", "SKIPPED", "OMITTED"}

\* Actions have ended in success, in failure and skipped by their handler.
C36_Witness ==
  /\ \E a \in Names : status[a] = "SUCCESS" /\ done(a)
  /\ \E a \in Names : status[a] = "FAILURE" /\ done(a)
  /\ \E a \in Names : status[a] = "SKIPPED" /\ done(a) /\ running_task[a] = "skip"

\* The number of at-signs that end right before the i-th symbol.
RECURSIVE RunBefore(_, _)
RunBefore(data, i) ==
  IF i > 1 /\ data[i - 1] = "@" THEN 1 + RunBefore(data, i - 1) ELSE 0

\* The template has an odd run of at-signs followed at once by a brace.
Triggered(data) ==
  \E i \in 1..Len(data) : data[i] = "{" /\ RunBefore(data, i) % 2 = 1

\* The source text the lexemes stand for, in order.
RECURSIVE Reassembled(_, _)
Reassembled(lexemes, i) ==
  IF i > Len(lexemes) THEN <<>>
  ELSE (IF lexemes[i].type = "EXPRESSION"
          THEN <<"@", "{">> \o lexemes[i].string \o <<"}">>
          ELSE lexemes[i].string)
       \o Reassembled(lexemes, i + 1)

IsSubstring(part, data) ==
  \E first \in 0..Len(data) : \E last \in first..Len(data) : part = Slice(data, first, last)

\* C37: a doubled at-sign is not a trigger and the text outside expressions
\* passes through untouched: an expression is lexed only where an odd run of
\* at-signs is followed at once by a brace, a template without such a place
\* (as @@{o}) renders to itself, every TEXT chunk is a substring of the
\* template, and the chunks with the expressions between them give back the
\* template.
C37_TextUntouched ==
  Rendered =>
    LET lexemes == TemplarStringLexer(template)
    IN /\ (\E i \in 1..Len(lexemes) : lexemes[i].type = "EXPRESSION") => Triggered(template)
       /\ ~Triggered(template) => rendered = [error |-> "none", string |-> template]
       /\ \A i \in 1..Len(lexemes) :
            lexemes[i].type = "TEXT" => IsSubstring(lexemes[i].string, template)
       /\ Reassembled(lexemes, 1) = template

\* C38: under each of the five strategies no action is yielded by the
\* strategy more than once, and no action is both yielded and skipped by
\* the strategy.
C38_SingleEmission ==
  /\ \A i, j \in 1..Len(yieldedSeq) : yieldedSeq[i] = yieldedSeq[j] => i = j
  /\ Yielded \cap strategySkipped = {}

\* The strategy has yielded two actions and skipped another.
C38_Witness == Len(yieldedSeq) >= 2 /\ strategySkipped # {} /\ mainPc = "done"

\* The candidate has an ancestor left out of the plan, and no ancestor in
\* FAILURE or SKIPPED.
OmittedAncestorOnly(a) ==
  /\ \E anc \in net.ancestors[a] : status[anc] = "OMITTED"
  /\ \A anc \in net.ancestors[a] : status[anc] \notin {"FAILURE", "SKIPPED"}

AllYielded ==
  \A s \in Sources : \A k \in 1..plex.span[s] :
    \E i \in 1..Len(plex.yielded) : plex.yielded[i] = <<s, k>>

\* The consumer was given no item twice, and the items of one source in the
\* order of that source.
InSourceOrder ==
  \A i, j \in 1..Len(plex.yielded) :
    (i < j /\ plex.yielded[i][1] = plex.yielded[j][1])
       => plex.yielded[i][2] < plex.yielded[j][2]

\* C40 as stated: with stop() called only once every source is exhausted and
\* the queue is empty, the consumer is given every item of every source
\* exactly once and in the order of its source, the iteration ends only
\* after stop(), and no item is given to the consumer after stop().
C40_MultiplexorJoin ==
  /\ InSourceOrder
  /\ plex.consumer \in {"stopped", "exited"} => (plex.stopped /\ AllYielded)
  /\ plex.late = 0

\* C40, amended: the same, except that the one item the getter had already
\* taken off the queue when stop() was called is still given to the consumer;
\* after stop() no getter is left to wait and nothing is taken off the queue.
C40_MultiplexorJoinInFlight ==
  /\ InSourceOrder
  /\ plex.consumer \in {"stopped", "exited"} => (plex.stopped /\ AllYielded)
  /\ plex.late <= 1
  /\ plex.stopped => /\ plex.getter \in {"none", "done", "cancelled"}
                     /\ plex.queue = <<>>
                     /\ (plex.getter = "done" => plex.late = 0)

\* Both sources had items, the last of them was given to the consumer after
\* stop(), and the iteration is over.
C40_Witness ==
  /\ plex.consumer = "exited"
  /\ \A s \in Sources : plex.span[s] >= 1
  /\ plex.late = 1
  /\ Len(plex.yielded) >= 3
====
